---- MODULE Spec2Model ----
(***************************************************************************)
(* Judge execution engine of devcapsules/codecapsules.                     *)
(*                                                                         *)
(* Spec    : one invocation of a process runner: the Go, C# and Java       *)
(*           container handlers (terraform/containers/*/lambda_function.py)*)
(*           and the java-judge handler (packages/runtime/.../java-judge). *)
(* SpecSql : one call of the SQL capsule validator                         *)
(*           (terraform/lambda-functions/sql-fixed/sql-capsule-validator), *)
(*           or one call of execute_sql_query of sql-judge                 *)
(*           (packages/runtime/lambda-functions/sql-judge.py).             *)
(* SpecPy  : one invocation of python-judge                                *)
(*           (packages/runtime/lambda-functions/python-judge.py).          *)
(* SpecWs  : the workspace files of two invocations of one compile-and-run *)
(*           handler.                                                      *)
(* SpecLim : the time and memory ceilings each handler derives from the    *)
(*           client's limits.                                              *)
(* SpecPrep: the text each compile-and-run handler writes to the source    *)
(*           file.                                                         *)
(***************************************************************************)
EXTENDS Integers, Sequences, FiniteSets, TLC

VARIABLES
    \* ---- process runners ----
    program,        \* which handler is invoked
    as_script,      \* java-judge: module run as __main__ (binds `time`) or imported
    code,           \* class of the submitted source text
    pc,             \* position of the handler (main thread)
    compiler,       \* the compile child process
    compile_result, \* how the compile step ended
    thread,         \* position of the worker thread run_go / run_csharp / run_java
    child,          \* the run child process
    child_out,      \* what the child has written to its stdout so far
    child_err,      \* what the child has written to its stderr so far
    child_rc,       \* exit status of the child, once it has exited
    desc,           \* a process forked by the child (a descendant)
    result,         \* the dict shared by execute_with_timeout and its worker
    watchdog,       \* "expired": thread.join(timeout_seconds + 1) gave up;
                    \* "alive": thread.is_alive() was then true
    args,           \* what lambda_handler has read out of result so far
    response,       \* the value lambda_handler returns
    \* ---- SQL capsule validator ----
    backend,        \* "sqlite" | "postgres" (requires_postgres) of the
                    \* validator; "judge": execute_sql_query of sql-judge
    array_cols,     \* columns of an array / json type (their values are lists)
    binary_cols,    \* columns of a BLOB / numeric / timestamp type (their
                    \* values are bytes, Decimal, datetime objects)
    schema_setup,   \* the statements of schema_setup, by kind
    reference_solution, \* kind of the reference query
    user_query,     \* kind of the user query, "absent" when empty
    vpc,            \* position of the validation call
    stmt_index,     \* index of the next schema statement
    conn,           \* the database connection
    txn,            \* the transaction opened with BEGIN
    db_committed,   \* committed state of the database
    db_working,     \* state seen inside the connection
    expected,       \* expected_cols and expected_result
    user,           \* user_cols and user_result
    exc,            \* an exception on its way out of validate_with_*
    vresult,        \* the dict validate_with_* returns
    vresponse,      \* the body lambda_handler returns
    log,            \* the statements sent to the database, in order
    \* ---- python-judge ----
    user_code,      \* class of the submitted Python code
    test_input,     \* testInput: << >> when None, << text >> otherwise
    timeout,        \* the client's timeout
    timeout_seconds, \* min(timeout, 30), what signal.alarm is given
    ppc,            \* position of lambda_handler / execute_python_code
    alarm,          \* the SIGALRM timer
    sys_stdout,     \* what sys.stdout is bound to
    sys_stderr,     \* what sys.stderr is bound to
    restricted_globals, \* the names bound in the dict handed to exec
    caught,         \* the exception the except block of execute_python_code handles
    unwinding,      \* an exception on its way out to lambda_handler's except clauses
    py_success,     \* the local success of execute_python_code: << >> until set
    stderr_capture, \* what has been written to the stderr buffer
    stdout_capture, \* what has been written to the stdout buffer
    fired_at,       \* where the handler was when SIGALRM was delivered
    py_response,    \* the value lambda_handler returns
    \* ---- workspaces ----
    ws_program,     \* which handler the two invocations call
    ws_code,        \* class of the source each invocation submits
    dirs,           \* the workspace directories that exist
    fs,             \* the files of the workspaces: path -> content
    wpc,            \* position of each invocation
    compiled,       \* whose source each invocation's compile step read
    executed,       \* whose artifact each invocation's run step executed
    \* ---- limits ----
    lim_program,    \* which handler receives the request
    lim_code,       \* "blank" or "runnable"
    time_in,        \* the client's time limit (timeout / time_limit)
    memory_in,      \* the client's memory limit (memory_limit)
    time_limit,     \* the time ceiling the handler computed
    memory_limit,   \* the memory ceiling the handler computed, << >> if none
    compile_timeout, \* timeout= of the compile step, << >> until handed over
    run_timeout,    \* timeout= of the run step / argument of signal.alarm
    heap_mb,        \* the -Xmx value of the JVM
    lim_outcome,    \* "no code" | "processed"
    lpc,            \* position of the handler
    \* ---- source preparation ----
    prep_program,   \* which handler receives the submission
    submitted,      \* the submitted source text
    prepared,       \* the text written to the source file
    main_class,     \* Java: the class name the detection returned, << >> for None
    prep_pc         \* "start" | "rejected" | "noentry" | "written"

runnerVars ==
    << program, as_script, code, pc, compiler, compile_result, thread, child,
       child_out, child_err, child_rc, desc, result, watchdog, args, response >>

sqlVars ==
    << backend, array_cols, binary_cols, schema_setup, reference_solution,
       user_query, vpc,
       stmt_index, conn, txn, db_committed, db_working, expected, user, exc,
       vresult, vresponse, log >>

pyVars ==
    << user_code, test_input, timeout, timeout_seconds, ppc, alarm, sys_stdout,
       sys_stderr, restricted_globals, caught, unwinding, py_success,
       stderr_capture, stdout_capture, fired_at, py_response >>

wsVars == << ws_program, ws_code, dirs, fs, wpc, compiled, executed >>

limVars ==
    << lim_program, lim_code, time_in, memory_in, time_limit, memory_limit,
       compile_timeout, run_timeout, heap_mb, lim_outcome, lpc >>

prepVars == << prep_program, submitted, prepared, main_class, prep_pc >>

\* What an action of one handler leaves alone: the state of the others.
notRunnerVars == << sqlVars, pyVars, wsVars, limVars, prepVars >>
notSqlVars == << runnerVars, pyVars, wsVars, limVars, prepVars >>
notPyVars == << runnerVars, sqlVars, wsVars, limVars, prepVars >>
notWsVars == << runnerVars, sqlVars, pyVars, limVars, prepVars >>
notLimVars == << runnerVars, sqlVars, pyVars, wsVars, prepVars >>
notPrepVars == << runnerVars, sqlVars, pyVars, wsVars, limVars >>

vars == << runnerVars, sqlVars, pyVars, wsVars, limVars, prepVars >>

----------------------------------------------------------------------------
(* Texts.  A text is a string; the texts the programs produce themselves   *)
(* are the literals of the source, the texts of the toolchain and of the   *)
(* submitted program are opaque tokens.                                    *)

EmptyText == ""
ProgramOut == "<program stdout>"
ProgramErr == "<program stderr>"
CompilerOut == "<compiler stdout>"
CompilerErr == "<compiler stderr>"
NoCodeMsg == "No code provided"
NoClassMsg == "Could not find public class declaration."
CompilationErrorMsg == "Compilation error:\n<compiler stderr>"
CompilationTimeoutMsg == "Compilation timeout"
ExecutionErrorMsg == "Execution error: <exception>"
ExecutionTimeoutMsg == "Execution timeout"
RuntimeErrorMsg == "Runtime error: <exception>"

ContainerPrograms == {"go", "csharp", "java"}
Programs == ContainerPrograms \cup {"java-judge"}

\* blank: empty after strip();  noentry: no class / main declaration;
\* nomain: a (public) class declaration but no main method;
\* runnable: a complete program
CodeKinds == {"blank", "noentry", "nomain", "runnable"}

NoResponse == [statusCode |-> 0]

\* result = {'success': False, 'stdout': '', 'stderr': '', 'timeout': False};
\* the key 'returncode' is absent until the worker stores it.
InitialResult ==
    [success |-> FALSE, stdout |-> EmptyText, stderr |-> EmptyText,
     timeout |-> FALSE, returncode |-> << >>]

\* The dicts execute_*_code returns itself (no 'timeout' key, no 'returncode').
FailureResult(msg) ==
    [success |-> FALSE, stdout |-> EmptyText, stderr |-> msg,
     timeout |-> FALSE, returncode |-> << >>]

NoArgs == [success |-> FALSE, stdout |-> EmptyText, stderr |-> EmptyText]

\* create_response(success, stdout, stderr, status_code) of the containers:
\* the body has success, stdout, execution.stderr and, when stderr is not
\* empty and success is false, error.  No exit code and no timeout flag.
create_response(success, stdout, stderr, status_code) ==
    [statusCode |-> status_code, success |-> success, stdout |-> stdout,
     stderr |-> stderr,
     error |-> IF stderr # EmptyText /\ ~success THEN << stderr >> ELSE << >>]

----------------------------------------------------------------------------
(* Container handlers: lambda_handler, execute_go_code / execute_csharp_code *)
(* / execute_java_code, execute_with_timeout.                              *)

IsContainer == program \in ContainerPrograms

\* if not code.strip(): return create_response(False, '', 'No code provided', 400)
RejectBlank ==
    /\ IsContainer /\ pc = "start" /\ code = "blank"
    /\ response' = create_response(FALSE, EmptyText, NoCodeMsg, 400)
    /\ pc' = "returned"
    /\ UNCHANGED << program, as_script, code, compiler, compile_result, thread,
                    child, child_out, child_err, child_rc, desc, result,
                    watchdog, args >>
    /\ UNCHANGED notRunnerVars

\* result = execute_*_code(code, test_input, timeout_seconds)
EnterExecute ==
    /\ IsContainer /\ pc = "start" /\ code # "blank"
    /\ pc' = "prepare"
    /\ UNCHANGED << program, as_script, code, compiler, compile_result, thread,
                    child, child_out, child_err, child_rc, desc, result,
                    watchdog, args, response >>
    /\ UNCHANGED notRunnerVars

\* Java container only: class_name = extract_class_name(code); a source with
\* no class declaration returns the failure dict before anything is compiled.
\* extract_class_name looks for `public class <name>`, then `class <name>`,
\* and for no main method.  Go and C# wrap a source without main and always
\* go on.
HasEntry == program # "java" \/ code \in {"runnable", "nomain"}

Prepare ==
    /\ IsContainer /\ pc = "prepare"
    /\ IF HasEntry
         THEN /\ pc' = "compile"
              /\ UNCHANGED result
         ELSE /\ pc' = "read_success"
              /\ result' = FailureResult(NoClassMsg)
    /\ UNCHANGED << program, as_script, code, compiler, compile_result, thread,
                    child, child_out, child_err, child_rc, desc, watchdog,
                    args, response >>
    /\ UNCHANGED notRunnerVars

\* compile_result = subprocess.run([...build...], capture_output=True,
\* text=True, timeout=10 | 15): the compiler is started and the handler
\* blocks on it; a launch failure raises and is caught by `except Exception`.
CompileStart ==
    /\ IsContainer /\ pc = "compile"
    /\ \/ /\ compiler' = "running"
          /\ pc' = "compiling"
          /\ UNCHANGED << compile_result, result >>
       \/ /\ compile_result' = "exception"
          /\ result' = FailureResult(ExecutionErrorMsg)
          /\ pc' = "read_success"
          /\ UNCHANGED compiler
    /\ UNCHANGED << program, as_script, code, thread, child, child_out,
                    child_err, child_rc, desc, watchdog, args, response >>
    /\ UNCHANGED notRunnerVars

\* Mutant: the return code of the compile step is not looked at.
RunAfterCompile_Unchecked(outcome) == TRUE

\* if compile_result.returncode != 0: return {...}; else go on to run.
RunAfterCompile(outcome) == outcome = "ok"

CompileOutcomes == {"ok", "error", "timeout"}

CompileFailure(outcome) ==
    IF outcome = "timeout"
      THEN FailureResult(CompilationTimeoutMsg)
      ELSE FailureResult(CompilationErrorMsg)

\* Mutant: a compile step that timed out is started again.
AfterFailedCompile_Retry(outcome) ==
    IF outcome = "timeout" THEN "compile" ELSE "read_success"

\* After a compile step that exited non-zero or timed out execute_*_code
\* returns its failure dict to lambda_handler.
AfterFailedCompile(outcome) == "read_success"

\* The compile step ends: exit 0, exit non-zero, or subprocess.TimeoutExpired
\* (subprocess.run has killed and reaped the compiler).
CompileEnd(outcome) ==
    /\ IsContainer /\ pc = "compiling"
    /\ compiler' = IF outcome = "timeout" THEN "killed" ELSE "exited"
    /\ compile_result' = outcome
    /\ IF RunAfterCompile(outcome)
         THEN /\ pc' = "thread_start"
              /\ UNCHANGED result
         ELSE /\ pc' = AfterFailedCompile(outcome)
              /\ result' = CompileFailure(outcome)
    /\ UNCHANGED << program, as_script, code, thread, child, child_out,
                    child_err, child_rc, desc, watchdog, args, response >>
    /\ UNCHANGED notRunnerVars

\* execute_with_timeout: result = {...}; thread = Thread(target=run_*);
\* thread.daemon = True; thread.start()
ThreadStart ==
    /\ IsContainer /\ pc = "thread_start"
    /\ result' = InitialResult
    /\ thread' = "spawn"
    /\ pc' = "join"
    /\ UNCHANGED << program, as_script, code, compiler, compile_result, child,
                    child_out, child_err, child_rc, desc, watchdog, args,
                    response >>
    /\ UNCHANGED notRunnerVars

ThreadAlive == thread \notin {"unstarted", "finished"}

\* thread.join(timeout_seconds + 1) returns because the worker has finished.
JoinReturns ==
    /\ IsContainer /\ pc = "join" /\ thread = "finished"
    /\ pc' = "is_alive"
    /\ UNCHANGED << program, as_script, code, compiler, compile_result, thread,
                    child, child_out, child_err, child_rc, desc, result,
                    watchdog, args, response >>
    /\ UNCHANGED notRunnerVars

\* thread.join(timeout_seconds + 1) gives up: the worker is still running.
\* Nothing orders the worker's end before this expiry: the worker's own
\* ceiling starts only once it has been scheduled and has spawned the child,
\* and for timeout_seconds <= -1 the join does not wait at all.
JoinExpires ==
    /\ IsContainer /\ pc = "join" /\ ThreadAlive
    /\ pc' = "is_alive"
    /\ watchdog' = "expired"
    /\ UNCHANGED << program, as_script, code, compiler, compile_result, thread,
                    child, child_out, child_err, child_rc, desc, result, args,
                    response >>
    /\ UNCHANGED notRunnerVars

\* if thread.is_alive():
IsAlive ==
    /\ IsContainer /\ pc = "is_alive"
    /\ pc' = IF ThreadAlive THEN "set_timeout" ELSE "read_success"
    /\ watchdog' = IF ThreadAlive THEN "alive" ELSE watchdog
    /\ UNCHANGED << program, as_script, code, compiler, compile_result, thread,
                    child, child_out, child_err, child_rc, desc, result,
                    args, response >>
    /\ UNCHANGED notRunnerVars

\*     result['timeout'] = True
MainSetTimeout ==
    /\ IsContainer /\ pc = "set_timeout"
    /\ result' = [result EXCEPT !.timeout = TRUE]
    /\ pc' = "set_stderr"
    /\ UNCHANGED << program, as_script, code, compiler, compile_result, thread,
                    child, child_out, child_err, child_rc, desc, watchdog,
                    args, response >>
    /\ UNCHANGED notRunnerVars

\*     result['stderr'] = f'Execution timeout (...)';  return result
MainSetStderr ==
    /\ IsContainer /\ pc = "set_stderr"
    /\ result' = [result EXCEPT !.stderr = ExecutionTimeoutMsg]
    /\ pc' = "read_success"
    /\ UNCHANGED << program, as_script, code, compiler, compile_result, thread,
                    child, child_out, child_err, child_rc, desc, watchdog,
                    args, response >>
    /\ UNCHANGED notRunnerVars

\* lambda_handler evaluates the arguments of create_response one by one:
\* result['success'], result['stdout'], result.get('stderr', ''), and then
\* result['success'] again for the status code.
ReadSuccess ==
    /\ IsContainer /\ pc = "read_success"
    /\ args' = [args EXCEPT !.success = result.success]
    /\ pc' = "read_stdout"
    /\ UNCHANGED << program, as_script, code, compiler, compile_result, thread,
                    child, child_out, child_err, child_rc, desc, result,
                    watchdog, response >>
    /\ UNCHANGED notRunnerVars

ReadStdout ==
    /\ IsContainer /\ pc = "read_stdout"
    /\ args' = [args EXCEPT !.stdout = result.stdout]
    /\ pc' = "read_stderr"
    /\ UNCHANGED << program, as_script, code, compiler, compile_result, thread,
                    child, child_out, child_err, child_rc, desc, result,
                    watchdog, response >>
    /\ UNCHANGED notRunnerVars

ReadStderr ==
    /\ IsContainer /\ pc = "read_stderr"
    /\ args' = [args EXCEPT !.stderr = result.stderr]
    /\ pc' = "respond"
    /\ UNCHANGED << program, as_script, code, compiler, compile_result, thread,
                    child, child_out, child_err, child_rc, desc, result,
                    watchdog, response >>
    /\ UNCHANGED notRunnerVars

\* return create_response(..., 200 if result['success'] else 400)
Respond ==
    /\ IsContainer /\ pc = "respond"
    /\ response' = create_response(args.success, args.stdout, args.stderr,
                                   IF result.success THEN 200 ELSE 400)
    /\ pc' = "returned"
    /\ UNCHANGED << program, as_script, code, compiler, compile_result, thread,
                    child, child_out, child_err, child_rc, desc, result,
                    watchdog, args >>
    /\ UNCHANGED notRunnerVars

----------------------------------------------------------------------------
(* The worker thread of execute_with_timeout (run_go / run_csharp /        *)
(* run_java) and the processes it starts.                                  *)

\* process = subprocess.run([...], input=test_input, capture_output=True,
\* text=True, timeout=timeout_seconds): the child is started (Popen); a
\* launch failure raises and is caught by `except Exception`.
WorkerSpawn ==
    /\ IsContainer /\ thread = "spawn"
    /\ \/ /\ child' = "running"
          /\ thread' = "communicate"
       \/ /\ thread' = "store_error"
          /\ UNCHANGED child
    /\ UNCHANGED << program, as_script, code, pc, compiler, compile_result,
                    child_out, child_err, child_rc, desc, result, watchdog,
                    args, response >>
    /\ UNCHANGED notRunnerVars

\* The submitted program runs: it writes, forks, exits.
ChildWrite ==
    /\ child = "running"
    /\ \/ /\ child_out = EmptyText
          /\ child_out' = ProgramOut
          /\ UNCHANGED child_err
       \/ /\ child_err = EmptyText
          /\ child_err' = ProgramErr
          /\ UNCHANGED child_out
    /\ UNCHANGED << program, as_script, code, pc, compiler, compile_result,
                    thread, child, child_rc, desc, result, watchdog, args,
                    response >>
    /\ UNCHANGED notRunnerVars

ChildFork ==
    /\ child = "running" /\ desc = "none"
    /\ desc' = "running"
    /\ UNCHANGED << program, as_script, code, pc, compiler, compile_result,
                    thread, child, child_out, child_err, child_rc, result,
                    watchdog, args, response >>
    /\ UNCHANGED notRunnerVars

ExitCodes == {0, 1}

ChildExit(rc) ==
    /\ child = "running"
    /\ child' = "exited"
    /\ child_rc' = rc
    /\ UNCHANGED << program, as_script, code, pc, compiler, compile_result,
                    thread, child_out, child_err, desc, result, watchdog,
                    args, response >>
    /\ UNCHANGED notRunnerVars

DescExit ==
    /\ desc = "running"
    /\ desc' = "exited"
    /\ UNCHANGED << program, as_script, code, pc, compiler, compile_result,
                    thread, child, child_out, child_err, child_rc, result,
                    watchdog, args, response >>
    /\ UNCHANGED notRunnerVars

\* What subprocess.run does to the processes when its timeout expires:
\* process.kill() signals the child alone (no process group, no session is
\* created for it), process.wait() reaps it.  A descendant is not signalled.
KillOnTimeout(c) == IF c = "running" THEN "killed" ELSE c

\* subprocess.run returns: the child has exited and its output is collected.
WorkerCompleted ==
    /\ IsContainer /\ thread = "communicate" /\ child = "exited"
    /\ thread' = "store_returncode"
    /\ UNCHANGED << program, as_script, code, pc, compiler, compile_result,
                    child, child_out, child_err, child_rc, desc, result,
                    watchdog, args, response >>
    /\ UNCHANGED notRunnerVars

\* subprocess.run raises TimeoutExpired after killing and reaping the child.
WorkerTimeoutExpired ==
    /\ IsContainer /\ thread = "communicate"
    /\ child' = KillOnTimeout(child)
    /\ thread' = "store_timeout"
    /\ UNCHANGED << program, as_script, code, pc, compiler, compile_result,
                    child_out, child_err, child_rc, desc, result, watchdog,
                    args, response >>
    /\ UNCHANGED notRunnerVars

\* result['returncode'] = process.returncode
WorkerStoreReturncode ==
    /\ IsContainer /\ thread = "store_returncode"
    /\ result' = [result EXCEPT !.returncode = << child_rc >>]
    /\ thread' = "store_stdout"
    /\ UNCHANGED << program, as_script, code, pc, compiler, compile_result,
                    child, child_out, child_err, child_rc, desc, watchdog,
                    args, response >>
    /\ UNCHANGED notRunnerVars

\* result['stdout'] = process.stdout
WorkerStoreStdout ==
    /\ IsContainer /\ thread = "store_stdout"
    /\ result' = [result EXCEPT !.stdout = child_out]
    /\ thread' = "store_stderr"
    /\ UNCHANGED << program, as_script, code, pc, compiler, compile_result,
                    child, child_out, child_err, child_rc, desc, watchdog,
                    args, response >>
    /\ UNCHANGED notRunnerVars

\* result['stderr'] = process.stderr
WorkerStoreStderr ==
    /\ IsContainer /\ thread = "store_stderr"
    /\ result' = [result EXCEPT !.stderr = child_err]
    /\ thread' = "store_success"
    /\ UNCHANGED << program, as_script, code, pc, compiler, compile_result,
                    child, child_out, child_err, child_rc, desc, watchdog,
                    args, response >>
    /\ UNCHANGED notRunnerVars

\* result['success'] = process.returncode == 0
WorkerStoreSuccess ==
    /\ IsContainer /\ thread = "store_success"
    /\ result' = [result EXCEPT !.success = (child_rc = 0)]
    /\ thread' = "finished"
    /\ UNCHANGED << program, as_script, code, pc, compiler, compile_result,
                    child, child_out, child_err, child_rc, desc, watchdog,
                    args, response >>
    /\ UNCHANGED notRunnerVars

\* except subprocess.TimeoutExpired: result['timeout'] = True
WorkerStoreTimeout ==
    /\ IsContainer /\ thread = "store_timeout"
    /\ result' = [result EXCEPT !.timeout = TRUE]
    /\ thread' = "store_timeout_msg"
    /\ UNCHANGED << program, as_script, code, pc, compiler, compile_result,
                    child, child_out, child_err, child_rc, desc, watchdog,
                    args, response >>
    /\ UNCHANGED notRunnerVars

\*     result['stderr'] = f'Execution timeout ({timeout_seconds} seconds exceeded)'
WorkerStoreTimeoutMsg ==
    /\ IsContainer /\ thread = "store_timeout_msg"
    /\ result' = [result EXCEPT !.stderr = ExecutionTimeoutMsg]
    /\ thread' = "finished"
    /\ UNCHANGED << program, as_script, code, pc, compiler, compile_result,
                    child, child_out, child_err, child_rc, desc, watchdog,
                    args, response >>
    /\ UNCHANGED notRunnerVars

\* except Exception as e: result['stderr'] = f'Runtime error: {str(e)}'
WorkerStoreError ==
    /\ IsContainer /\ thread = "store_error"
    /\ result' = [result EXCEPT !.stderr = RuntimeErrorMsg]
    /\ thread' = "finished"
    /\ UNCHANGED << program, as_script, code, pc, compiler, compile_result,
                    child, child_out, child_err, child_rc, desc, watchdog,
                    args, response >>
    /\ UNCHANGED notRunnerVars

----------------------------------------------------------------------------
(* java-judge: lambda_handler, compile_java, execute_java, create_response. *)

IsJavaJudge == program = "java-judge"

TimeoutExitCode == 124
ErrorExitCode == 1

\* create_response(status_code, message, **kwargs): the body is message,
\* timestamp and the keyword arguments.
JJMessage(status_code, message) ==
    [statusCode |-> status_code, message |-> message]

JJCompileFailed(error, output) ==
    [statusCode |-> 400, message |-> error, compile_output |-> output]

JJExecuted(r) ==
    [statusCode |-> 200, message |-> "Execution completed",
     stdout |-> r.stdout, stderr |-> r.stderr, exit_code |-> r.exit_code]

\* create_response calls time.time().  The module binds `time` only under
\* `if __name__ == '__main__'`: imported as a handler the call raises
\* NameError, inside the handler's `except Exception` too, and the
\* invocation ends with that exception instead of a response.
JJReturn(resp) ==
    IF as_script
      THEN /\ response' = resp
           /\ pc' = "returned"
      ELSE /\ pc' = "raised"
           /\ UNCHANGED response

\* if not source_code: return create_response(400, "No source code provided")
JJRejectBlank ==
    /\ IsJavaJudge /\ pc = "start" /\ code = "blank"
    /\ JJReturn(JJMessage(400, "No source code provided"))
    /\ UNCHANGED << program, as_script, code, compiler, compile_result, thread,
                    child, child_out, child_err, child_rc, desc, result,
                    watchdog, args >>
    /\ UNCHANGED notRunnerVars

NoMainClassMsg == "No public class with main method found"

\* with tempfile.TemporaryDirectory() as temp_dir:
JJEnter ==
    /\ IsJavaJudge /\ pc = "start" /\ code # "blank"
    /\ pc' = "extract"
    /\ UNCHANGED << program, as_script, code, compiler, compile_result, thread,
                    child, child_out, child_err, child_rc, desc, result,
                    watchdog, args, response >>
    /\ UNCHANGED notRunnerVars

\* main_class = extract_main_class(source_code); if not main_class: return ...
JJExtract ==
    /\ IsJavaJudge /\ pc = "extract"
    /\ IF code = "runnable"
         THEN /\ pc' = "compile"
              /\ UNCHANGED response
         ELSE JJReturn(JJMessage(400, NoMainClassMsg))
    /\ UNCHANGED << program, as_script, code, compiler, compile_result, thread,
                    child, child_out, child_err, child_rc, desc, result,
                    watchdog, args >>
    /\ UNCHANGED notRunnerVars

\* compile_java: process = subprocess.run(compile_cmd, timeout=time_limit);
\* a launch failure is caught inside compile_java ('Compilation error: ...').
JJCompileStart ==
    /\ IsJavaJudge /\ pc = "compile"
    /\ \/ /\ compiler' = "running"
          /\ pc' = "compiling"
          /\ UNCHANGED << compile_result, response >>
       \/ /\ compile_result' = "exception"
          /\ JJReturn(JJCompileFailed("Compilation error: <exception>", << >>))
          /\ UNCHANGED compiler
    /\ UNCHANGED << program, as_script, code, thread, child, child_out,
                    child_err, child_rc, desc, result, watchdog, args >>
    /\ UNCHANGED notRunnerVars

\* compile_java's three returns and `if not compile_result['success']: return`.
\* On a non-zero exit the output is process.stdout + process.stderr.
JJCompileEnd(outcome) ==
    /\ IsJavaJudge /\ pc = "compiling"
    /\ compiler' = IF outcome = "timeout" THEN "killed" ELSE "exited"
    /\ compile_result' = outcome
    /\ IF RunAfterCompile(outcome)
         THEN /\ pc' = "execute"
              /\ UNCHANGED response
         ELSE IF outcome = "timeout"
           THEN JJReturn(JJCompileFailed("Compilation timeout", << >>))
           ELSE JJReturn(JJCompileFailed("Compilation failed",
                                         << CompilerOut, CompilerErr >>))
    /\ UNCHANGED << program, as_script, code, thread, child, child_out,
                    child_err, child_rc, desc, result, watchdog, args >>
    /\ UNCHANGED notRunnerVars

\* execute_java: start_time = time.time() comes first, outside the try:
\* imported as a handler it raises NameError before any process is started.
\* Otherwise subprocess.run starts the child; a launch failure gives the
\* 'Runtime error' dict with exit_code 1.
JJExecuteStart ==
    /\ IsJavaJudge /\ pc = "execute"
    /\ IF ~as_script
         THEN /\ pc' = "raised"
              /\ UNCHANGED << child, result >>
         ELSE \/ /\ child' = "running"
                 /\ pc' = "jj_communicate"
                 /\ UNCHANGED result
              \/ /\ result' = [stdout |-> EmptyText, stderr |-> RuntimeErrorMsg,
                               exit_code |-> ErrorExitCode]
                 /\ pc' = "jj_respond"
                 /\ UNCHANGED child
    /\ UNCHANGED << program, as_script, code, compiler, compile_result, thread,
                    child_out, child_err, child_rc, desc, watchdog, args,
                    response >>
    /\ UNCHANGED notRunnerVars

\* subprocess.run returns: {'stdout': process.stdout, 'stderr': process.stderr,
\* 'exit_code': process.returncode, ...}
JJCompleted ==
    /\ IsJavaJudge /\ pc = "jj_communicate" /\ child = "exited"
    /\ result' = [stdout |-> child_out, stderr |-> child_err,
                  exit_code |-> child_rc]
    /\ pc' = "jj_respond"
    /\ UNCHANGED << program, as_script, code, compiler, compile_result, thread,
                    child, child_out, child_err, child_rc, desc, watchdog,
                    args, response >>
    /\ UNCHANGED notRunnerVars

\* except subprocess.TimeoutExpired: {'stdout': '', 'stderr': 'Time limit
\* exceeded (...)', 'exit_code': 124, ...}
JJTimeoutExpired ==
    /\ IsJavaJudge /\ pc = "jj_communicate"
    /\ child' = KillOnTimeout(child)
    /\ result' = [stdout |-> EmptyText, stderr |-> "Time limit exceeded",
                  exit_code |-> TimeoutExitCode]
    /\ pc' = "jj_respond"
    /\ UNCHANGED << program, as_script, code, compiler, compile_result, thread,
                    child_out, child_err, child_rc, desc, watchdog, args,
                    response >>
    /\ UNCHANGED notRunnerVars

\* return create_response(200, "Execution completed", stdout=..., ...)
JJRespond ==
    /\ IsJavaJudge /\ pc = "jj_respond"
    /\ JJReturn(JJExecuted(result))
    /\ UNCHANGED << program, as_script, code, compiler, compile_result, thread,
                    child, child_out, child_err, child_rc, desc, result,
                    watchdog, args >>
    /\ UNCHANGED notRunnerVars

----------------------------------------------------------------------------
(* SQL capsule validator: lambda_handler, validate_with_sqlite,            *)
(* validate_with_postgres (sql-capsule-validator.py).                      *)

MaxRows == 2

ColNames == {"a", "b"}
Values == {1, 2}
ColSeqs == { << "a" >>, << "a", "b" >>, << "b", "a" >> }

Range(seq) == { seq[i] : i \in DOMAIN seq }

\* dict(row): a row is a mapping from the column names to values.
RowsOver(cols) == [Range(cols) -> Values]

\* What a query can return: cursor.description (the column names in order)
\* and cursor.fetchall() (the rows in order).
ResultSets ==
    UNION { { [cols |-> cols, rows |-> rows] :
                rows \in UNION { [1..n -> RowsOver(cols)] : n \in 0..MaxRows } } :
            cols \in ColSeqs }

NoResult == [cols |-> << >>, rows |-> << >>]

\* Statement kinds.  schema_setup: "ddl" succeeds and changes the database,
\* "blank" is whitespace only, "error" raises a database error, "nonstring"
\* is a list element that is no string.
SchemaInputs ==
    { << >>, << "ddl" >>, << "blank", "ddl", "ddl" >>, << "ddl", "error", "ddl" >>,
      << "ddl", "nonstring", "ddl" >> }

\* reference_solution: "absent" is empty after strip(), "select" returns a
\* result set, "nonquery" executes and returns none, "error" raises.
ReferenceKinds == {"absent", "select", "nonquery", "error"}

\* user_query: as above; "mutate" is an INSERT / UPDATE / DELETE, "drop" a
\* DROP TABLE, "commit" a COMMIT.
UserKinds == {"absent", "select", "mutate", "drop", "commit", "error"}

\* A key of a dict that is absent (or None) is << >>, a present one << v >>.
None == << >>
Some(v) == << v >>

NoValidation ==
    [success |-> FALSE, user_result |-> None, expected_result |-> None,
     columns |-> None, error |-> None]

NoBody == [statusCode |-> 0]

Entry(op, n) == [op |-> op, n |-> n]

\* tuple(sorted(row.items())): the (column, value) pairs of a row in the
\* order of the column names.
ColRank(c) == IF c = "a" THEN 1 ELSE 2

SortedItems(row) ==
    LET keys == DOMAIN row
        n == Cardinality(keys)
        order == CHOOSE f \in [1..n -> keys] :
                     \A i, j \in 1..n : i < j => ColRank(f[i]) < ColRank(f[j])
    IN  [i \in 1..n |-> << order[i], row[order[i]] >>]

\* set(tuple(sorted(row.items())) for row in rows)
RowSet(rows) == { SortedItems(rows[i]) : i \in DOMAIN rows }

\* Building that set hashes every row: a row with a list value (a column of
\* an array or json type, in the postgres backend) raises TypeError.
Unhashable(rows) == \E i \in DOMAIN rows : DOMAIN rows[i] \cap array_cols # {}

\* Mutant: the column names are compared as a set, not as a sequence.
ColumnsMatch_AsSet(user_cols, expected_cols) ==
    Range(user_cols) = Range(expected_cols)

\* user_cols != expected_cols, two lists compared in order
ColumnsMatch(user_cols, expected_cols) == user_cols = expected_cols

\* is_correct = (set(...user_result) == set(...expected_result));
\* if is_correct and user_cols != expected_cols: is_correct = False
IsCorrect(u, e) ==
    LET is_correct == RowSet(u.rows) = RowSet(e.rows)
    IN  IF is_correct /\ ~ColumnsMatch(u.cols, e.cols) THEN FALSE ELSE is_correct

MismatchMsg == "Results do not match expected output"

\* Mutant: what is reported as expected is read after the user query, from
\* what the user query left behind.
Validated_ReadAfterUser(u, e) ==
    [success |-> TRUE, user_result |-> Some(u.rows),
     expected_result |-> Some(u.rows), columns |-> Some(u.cols), error |-> None]

\* The dict returned after the user query has been executed and compared.
Validated(u, e) ==
    [success |-> IsCorrect(u, e), user_result |-> Some(u.rows),
     expected_result |-> Some(e.rows), columns |-> Some(u.cols),
     error |-> IF IsCorrect(u, e) THEN None ELSE Some(MismatchMsg)]

\* except sqlite3.Error / psycopg2.Error around the user query
UserError(e) ==
    [success |-> FALSE, user_result |-> None, expected_result |-> Some(e.rows),
     columns |-> Some(e.cols), error |-> Some("SQL Error: <database error>")]

\* No user query: only the reference result.
ReferenceOnly(e) ==
    [success |-> TRUE, user_result |-> None, expected_result |-> Some(e.rows),
     columns |-> Some(e.cols), error |-> None]

\* The outer except sqlite3.Error / psycopg2.Error
DbError ==
    [success |-> FALSE, user_result |-> None, expected_result |-> None,
     columns |-> None,
     error |-> Some(IF backend = "postgres" THEN "PostgreSQL Error: <database error>"
                    ELSE "SQLite Error: <database error>")]

\* The body lambda_handler builds from the returned dict.
Body(r) ==
    [statusCode |-> 200, success |-> r.success, validation_mode |-> Some(backend),
     user_result |-> r.user_result, expected_result |-> r.expected_result,
     columns |-> r.columns, error |-> r.error]

\* json.dumps(body) encodes None, numbers, strings, lists and dicts; for a
\* bytes, Decimal or datetime value in a row it raises TypeError.
Unserializable(rs) ==
    /\ rs # None
    /\ \E i \in DOMAIN rs[1] : DOMAIN rs[1][i] \cap binary_cols # {}

\* create_error_response(error_message)
ErrorBody(msg) ==
    [statusCode |-> 400, success |-> FALSE, validation_mode |-> None,
     user_result |-> None, expected_result |-> None, columns |-> None,
     error |-> Some(msg)]

\* if not schema_setup / if not reference_solution: return create_error_response
VReject ==
    /\ vpc = "start" /\ backend # "judge"
    /\ schema_setup = << >> \/ reference_solution = "absent"
    /\ vresponse' = IF schema_setup = << >>
                      THEN ErrorBody("No schema_setup provided")
                      ELSE ErrorBody("No reference_solution provided")
    /\ vpc' = "returned"
    /\ UNCHANGED << backend, array_cols, binary_cols, schema_setup, reference_solution,
                    user_query, stmt_index, conn, txn, db_committed, db_working,
                    expected, user, exc, vresult, log >>
    /\ UNCHANGED notSqlVars

\* if requires_postgres: validate_with_postgres(...) else: validate_with_sqlite(...)
VDispatch ==
    /\ vpc = "start" /\ backend # "judge"
    /\ schema_setup # << >> /\ reference_solution # "absent"
    /\ vpc' = "connect"
    /\ UNCHANGED << backend, array_cols, binary_cols, schema_setup, reference_solution,
                    user_query, stmt_index, conn, txn, db_committed, db_working,
                    expected, user, exc, vresult, vresponse, log >>
    /\ UNCHANGED notSqlVars

\* conn = sqlite3.connect(':memory:'): a fresh, empty database.
\* conn = psycopg2.connect(**db_config): the shared database, or
\* psycopg2.OperationalError, caught by the outer except with conn still None.
Connect ==
    /\ vpc = "connect"
    /\ IF backend = "sqlite"
         THEN /\ conn' = "open"
              /\ db_working' = {}
              /\ vpc' = "schema"
              /\ UNCHANGED vresult
         ELSE \/ /\ conn' = "open"
                 /\ db_working' = db_committed
                 /\ vpc' = "begin"
                 /\ UNCHANGED vresult
              \/ /\ vresult' = DbError
                 /\ vpc' = "finally"
                 /\ UNCHANGED << conn, db_working >>
    /\ UNCHANGED << backend, array_cols, binary_cols, schema_setup, reference_solution,
                    user_query, stmt_index, txn, db_committed, expected, user,
                    exc, vresponse, log >>
    /\ UNCHANGED notSqlVars

\* cursor.execute("BEGIN;")
Begin ==
    /\ vpc = "begin"
    /\ log' = Append(log, Entry("BEGIN", 0))
    /\ txn' = "open"
    /\ vpc' = "schema"
    /\ UNCHANGED << backend, array_cols, binary_cols, schema_setup, reference_solution,
                    user_query, stmt_index, conn, db_committed, db_working,
                    expected, user, exc, vresult, vresponse >>
    /\ UNCHANGED notSqlVars

\* Mutant: the loop passes over the statement that follows.
NextStatement_Skip(i) == i + 2

\* for statement in schema_setup: the statement after the i-th
NextStatement(i) == i + 1

\* for statement in schema_setup: if statement.strip(): cursor.execute(statement)
SchemaStatement ==
    /\ vpc = "schema" /\ stmt_index <= Len(schema_setup)
    /\ LET kind == schema_setup[stmt_index]
       IN  CASE kind = "blank" ->
                  /\ stmt_index' = NextStatement(stmt_index)
                  /\ UNCHANGED << vpc, db_working, exc, vresult, log >>
             [] kind = "ddl" ->
                  /\ log' = Append(log, Entry("schema", stmt_index))
                  /\ db_working' = db_working \cup {"schema"}
                  /\ stmt_index' = NextStatement(stmt_index)
                  /\ UNCHANGED << vpc, exc, vresult >>
             [] kind = "error" ->
                  /\ log' = Append(log, Entry("schema", stmt_index))
                  /\ vresult' = DbError
                  /\ vpc' = "finally"
                  /\ UNCHANGED << stmt_index, db_working, exc >>
             [] kind = "nonstring" ->
                  /\ exc' = "other"
                  /\ vpc' = "finally"
                  /\ UNCHANGED << stmt_index, db_working, vresult, log >>
    /\ UNCHANGED << backend, array_cols, binary_cols, schema_setup, reference_solution,
                    user_query, conn, txn, db_committed, expected, user,
                    vresponse >>
    /\ UNCHANGED notSqlVars

SchemaDone ==
    /\ vpc = "schema" /\ stmt_index > Len(schema_setup)
    /\ vpc' = "reference"
    /\ UNCHANGED << backend, array_cols, binary_cols, schema_setup, reference_solution,
                    user_query, stmt_index, conn, txn, db_committed, db_working,
                    expected, user, exc, vresult, vresponse, log >>
    /\ UNCHANGED notSqlVars

\* A statement that returns no result set: in sqlite cursor.description is
\* None and the list comprehension over it raises TypeError; in psycopg2
\* cursor.fetchall() raises ProgrammingError, a psycopg2.Error.
NoResultSetRaises == IF backend = "sqlite" THEN "other" ELSE "database"

\* Mutant: the user-query block follows the reference query however the
\* reference query ended.
AfterReference_Continue(kind) == "user"

\* Where control goes after the reference query: on to the user-query block
\* when it returned its rows, to the except clause and the finally block
\* when it raised.
AfterReference(kind) == IF kind = "select" THEN "user" ELSE "finally"

\* cursor.execute(reference_solution); expected_rows = cursor.fetchall();
\* expected_cols = [...cursor.description]; expected_result = [dict(row) ...]
Reference ==
    /\ vpc = "reference"
    /\ log' = Append(log, Entry("reference", 0))
    /\ vpc' = AfterReference(reference_solution)
    /\ CASE reference_solution = "select" ->
              /\ \E r \in ResultSets : expected' = r
              /\ UNCHANGED << db_working, exc, vresult >>
         [] reference_solution = "nonquery" ->
              /\ db_working' = db_working \cup {"reference"}
              /\ IF NoResultSetRaises = "other"
                   THEN exc' = "other" /\ UNCHANGED vresult
                   ELSE vresult' = DbError /\ UNCHANGED exc
              /\ UNCHANGED expected
         [] reference_solution = "error" ->
              /\ vresult' = DbError
              /\ UNCHANGED << db_working, exc, expected >>
    /\ UNCHANGED << backend, array_cols, binary_cols, schema_setup, reference_solution,
                    user_query, stmt_index, conn, txn, db_committed, user,
                    vresponse >>
    /\ UNCHANGED notSqlVars

\* After the user-query block: sqlite returns from inside the try (the
\* finally follows), postgres goes on to cursor.execute("ROLLBACK;").
AfterUser == IF backend = "postgres" THEN "rollback" ELSE "finally"

\* else: (no user query) the reference result alone
UserAbsent ==
    /\ vpc = "user" /\ user_query = "absent"
    /\ vresult' = ReferenceOnly(expected)
    /\ vpc' = AfterUser
    /\ UNCHANGED << backend, array_cols, binary_cols, schema_setup, reference_solution,
                    user_query, stmt_index, conn, txn, db_committed, db_working,
                    expected, user, exc, vresponse, log >>
    /\ UNCHANGED notSqlVars

\* cursor.execute(user_query); fetchall(); the comparison; the result dict.
\* The set comparison raises TypeError on an unhashable row; that exception
\* is no database error and leaves validate_with_* through the finally.
UserSelect ==
    /\ vpc = "user" /\ user_query = "select"
    /\ log' = Append(log, Entry("user", 0))
    /\ \E r \in ResultSets :
          /\ user' = r
          /\ IF Unhashable(r.rows) \/ Unhashable(expected.rows)
               THEN /\ exc' = "other"
                    /\ vpc' = "finally"
                    /\ UNCHANGED vresult
               ELSE /\ vresult' = Validated(r, expected)
                    /\ vpc' = AfterUser
                    /\ UNCHANGED exc
    /\ UNCHANGED << backend, array_cols, binary_cols, schema_setup, reference_solution,
                    user_query, stmt_index, conn, txn, db_committed, db_working,
                    expected, vresponse >>
    /\ UNCHANGED notSqlVars

\* A user query that changes the database and returns no result set.  No
\* screen precedes cursor.execute(user_query): the statement is executed.
UserMutate ==
    /\ vpc = "user" /\ user_query \in {"mutate", "drop"}
    /\ log' = Append(log, Entry("user", 0))
    /\ db_working' = db_working \cup {"user"}
    /\ IF NoResultSetRaises = "other"
         THEN /\ exc' = "other"
              /\ vpc' = "finally"
              /\ UNCHANGED vresult
         ELSE /\ vresult' = UserError(expected)
              /\ vpc' = AfterUser
              /\ UNCHANGED exc
    /\ UNCHANGED << backend, array_cols, binary_cols, schema_setup, reference_solution,
                    user_query, stmt_index, conn, txn, db_committed, expected,
                    user, vresponse >>
    /\ UNCHANGED notSqlVars

\* A user query COMMIT.  postgres: the transaction opened with BEGIN is
\* committed, then fetchall() raises ProgrammingError.  sqlite: the
\* in-memory database commits (TypeError on cursor.description follows) or,
\* with no transaction active, raises sqlite3.OperationalError.
UserCommit ==
    /\ vpc = "user" /\ user_query = "commit"
    /\ log' = Append(log, Entry("user", 0))
    /\ IF backend = "postgres"
         THEN /\ db_committed' = db_working
              /\ txn' = "committed"
              /\ vresult' = UserError(expected)
              /\ vpc' = AfterUser
              /\ UNCHANGED exc
         ELSE /\ UNCHANGED << db_committed, txn >>
              /\ \/ /\ exc' = "other"
                    /\ vpc' = "finally"
                    /\ UNCHANGED vresult
                 \/ /\ vresult' = UserError(expected)
                    /\ vpc' = AfterUser
                    /\ UNCHANGED exc
    /\ UNCHANGED << backend, array_cols, binary_cols, schema_setup, reference_solution,
                    user_query, stmt_index, conn, db_working, expected, user,
                    vresponse >>
    /\ UNCHANGED notSqlVars

\* A user query that raises a database error: the inner except.
UserFails ==
    /\ vpc = "user" /\ user_query = "error"
    /\ log' = Append(log, Entry("user", 0))
    /\ vresult' = UserError(expected)
    /\ vpc' = AfterUser
    /\ UNCHANGED << backend, array_cols, binary_cols, schema_setup, reference_solution,
                    user_query, stmt_index, conn, txn, db_committed, db_working,
                    expected, user, exc, vresponse >>
    /\ UNCHANGED notSqlVars

\* What ROLLBACK does to the transaction opened with BEGIN: an open one is
\* rolled back, one that was committed stays committed.
AfterRollback(t) == IF t = "open" THEN "rolled_back" ELSE t

\* cursor.execute("ROLLBACK;"); return result
Rollback ==
    /\ vpc = "rollback"
    /\ log' = Append(log, Entry("ROLLBACK", 0))
    /\ txn' = AfterRollback(txn)
    /\ db_working' = db_committed
    /\ vpc' = "finally"
    /\ UNCHANGED << backend, array_cols, binary_cols, schema_setup, reference_solution,
                    user_query, stmt_index, conn, db_committed, expected, user,
                    exc, vresult, vresponse >>
    /\ UNCHANGED notSqlVars

\* What closing the connection does to the transaction: the server discards
\* a transaction that is still open.
AfterClose(t) == IF t = "open" THEN "discarded" ELSE t

\* Mutant: the connection is left as it is.
Close_Leak(c) == c

\* if conn: conn.close() / if connection: connection.close()
Close(c) == IF c = "open" THEN "closed" ELSE c

\* finally: if conn: conn.close()
Finally ==
    /\ vpc = "finally"
    /\ conn' = Close(conn)
    /\ txn' = AfterClose(txn)
    /\ db_working' = {}
    /\ vpc' = "respond"
    /\ UNCHANGED << backend, array_cols, binary_cols, schema_setup, reference_solution,
                    user_query, stmt_index, db_committed, expected, user, exc,
                    vresult, vresponse, log >>
    /\ UNCHANGED notSqlVars

\* lambda_handler: the 200 body built from result, or, for an exception that
\* left validate_with_* or that json.dumps raised,
\* create_error_response(f"Validation failed: ...").
VRespond ==
    /\ vpc = "respond"
    /\ vresponse' = IF \/ exc = "other"
                        \/ Unserializable(vresult.user_result)
                        \/ Unserializable(vresult.expected_result)
                      THEN ErrorBody("Validation failed: <exception>")
                      ELSE Body(vresult)
    /\ vpc' = "returned"
    /\ UNCHANGED << backend, array_cols, binary_cols, schema_setup, reference_solution,
                    user_query, stmt_index, conn, txn, db_committed, db_working,
                    expected, user, exc, vresult, log >>
    /\ UNCHANGED notSqlVars

----------------------------------------------------------------------------
(* sql-judge: execute_sql_query (packages/runtime/lambda-functions/        *)
(* sql-judge.py), one call of the function.                                *)

\* The dicts execute_sql_query returns.
QueryData(r) ==
    [success |-> TRUE, user_result |-> Some(r.rows), expected_result |-> None,
     columns |-> None, error |-> None]

QueryError(msg) ==
    [success |-> FALSE, user_result |-> None, expected_result |-> None,
     columns |-> None, error |-> Some(msg)]

\* if not all([host, user, password]): return {... 'Database configuration
\* missing'}: a return inside the try, with connection still None.
SJConfig ==
    /\ backend = "judge" /\ vpc = "start"
    /\ \/ /\ vpc' = "sj_connect"
          /\ UNCHANGED vresult
       \/ /\ vresult' = QueryError("Database configuration missing")
          /\ vpc' = "sj_finally"
    /\ UNCHANGED << backend, array_cols, binary_cols, schema_setup, reference_solution,
                    user_query, stmt_index, conn, txn, db_committed, db_working,
                    expected, user, exc, vresponse, log >>
    /\ UNCHANGED notSqlVars

\* connection = psycopg2.connect(**db_config);
\* connection.set_session(readonly=True, autocommit=True);
\* cursor = connection.cursor(...); cursor.execute("SET statement_timeout ...")
\* connect raises OperationalError with connection still None; the calls
\* after it raise with the connection open.
SJConnect ==
    /\ backend = "judge" /\ vpc = "sj_connect"
    /\ \/ /\ conn' = "open"
          /\ db_working' = db_committed
          /\ vpc' = "sj_execute"
          /\ UNCHANGED vresult
       \/ /\ conn' = "open"
          /\ db_working' = db_committed
          /\ vresult' = QueryError("<database error>")
          /\ vpc' = "sj_finally"
       \/ /\ vresult' = QueryError("<database error>")
          /\ vpc' = "sj_finally"
          /\ UNCHANGED << conn, db_working >>
    /\ UNCHANGED << backend, array_cols, binary_cols, schema_setup, reference_solution,
                    user_query, stmt_index, txn, db_committed, expected, user, exc,
                    vresponse, log >>
    /\ UNCHANGED notSqlVars

\* cursor.execute(query); rows = cursor.fetchmany(max_rows); data = [...]
\* A SELECT returns its rows.  Every other statement ends in a
\* psycopg2.Error: the read-only session refuses a write, an empty query
\* and a statement without a result set raise ProgrammingError.
SJExecute ==
    /\ backend = "judge" /\ vpc = "sj_execute"
    /\ log' = Append(log, Entry("query", 0))
    /\ IF user_query = "select"
         THEN \/ \E r \in ResultSets :
                    /\ user' = r
                    /\ vresult' = QueryData(r)
              \/ /\ vresult' = QueryError("Unexpected error: <exception>")
                 /\ UNCHANGED user
         ELSE /\ vresult' = QueryError("<database error>")
              /\ UNCHANGED user
    /\ vpc' = "sj_finally"
    /\ UNCHANGED << backend, array_cols, binary_cols, schema_setup, reference_solution,
                    user_query, stmt_index, conn, txn, db_committed, db_working,
                    expected, exc, vresponse >>
    /\ UNCHANGED notSqlVars

\* finally: if cursor: cursor.close(); if connection: connection.close()
SJFinally ==
    /\ backend = "judge" /\ vpc = "sj_finally"
    /\ conn' = Close(conn)
    /\ db_working' = {}
    /\ vpc' = "sj_returned"
    /\ UNCHANGED << backend, array_cols, binary_cols, schema_setup, reference_solution,
                    user_query, stmt_index, txn, db_committed, expected, user, exc,
                    vresult, vresponse, log >>
    /\ UNCHANGED notSqlVars

----------------------------------------------------------------------------
(* python-judge: lambda_handler, execute_python_code, timeout_handler,     *)
(* create_restricted_globals, create_error_response (python-judge.py).     *)

\* The submitted code: "blank" is empty after strip(), "toolarge" has more
\* than 50000 characters, "ok" ends normally, "raises" raises an exception
\* it does not catch, "loop" never ends, "catcher" catches every exception
\* raised inside it (try: ... except: ...) and ends when it chooses to, if
\* ever.  Any of them may print before it ends, raises or is interrupted.
PyCodeKinds == {"blank", "toolarge", "ok", "raises", "loop", "catcher"}

Timeouts == {-1, 0, 1, 30, 31}

TestInputs == { << >>, << "data" >> }

Min(a, b) == IF a < b THEN a ELSE b

\* timeout_seconds = min(body.get('timeout', 10), 30)
PyTimeoutSeconds(t) == Min(t, 30)

\* signal.alarm(t): 0 arms nothing; a negative t is taken as an unsigned
\* number of seconds (2^32 + t), which no invocation lives to see.
AlarmArmed(t) == t >= 1

\* The timer after signal.alarm(t): "armed" can expire during the invocation,
\* "far" is pending and expires long after it.
AlarmSet(t) ==
    IF AlarmArmed(t) THEN "armed" ELSE IF t < 0 THEN "far" ELSE "unarmed"

\* A timer that has been set and has neither expired nor been cancelled.
Pending(a) == a \in {"armed", "far"}

\* Mutant: the finally block leaves the timer as it is.
Disarm_Skip(a) == a

\* signal.alarm(0): a pending timer is cancelled
Disarm(a) == IF Pending(a) THEN "disarmed" ELSE a

TimedOutMsg == "Execution timed out"
TimeoutErrorText == "TimeoutError: Code execution timed out"
UserErrorText == "<exception type>: <message>"

\* create_error_response(message, status_code=400)
create_error_response(message, status_code) ==
    [statusCode |-> status_code, success |-> FALSE, stdout |-> EmptyText,
     stderr |-> << message >>, exitCode |-> 1, error |-> << message >>]

\* The 200 response of lambda_handler, built from the dict
\* execute_python_code returned.
PyExecuted(ok, out, err) ==
    [statusCode |-> 200, success |-> TRUE, stdout |-> out, stderr |-> err,
     exitCode |-> IF ok THEN 0 ELSE 1, error |-> << >>]

\* The names of the ambient interpreter (the builtins module) that the
\* table of create_restricted_globals leaves out.
AmbientNames == {"open", "__import__", "eval", "exec", "compile", "globals"}

safe_builtins ==
    {"print", "len", "str", "int", "float", "bool", "list", "dict", "tuple",
     "set", "range", "enumerate", "zip", "map", "filter", "sum", "max", "min",
     "abs", "round", "sorted", "reversed", "any", "all", "isinstance", "type",
     "hasattr", "getattr", "setattr", "ord", "chr", "hex", "oct", "bin",
     "Exception", "ValueError", "TypeError", "KeyError", "IndexError"}

safe_modules == {"math", "random", "string", "datetime", "json"}

\* return {**safe_builtins, **safe_modules}: the keys of the dict
create_restricted_globals == safe_builtins \cup safe_modules

\* exec(code, globals): a globals dict without the key __builtins__ gets a
\* reference to the builtins module inserted under that key.
ExecGlobals(g) == g \cup {"__builtins__"}

\* The names the executed code can resolve: the keys of its globals and,
\* through __builtins__, every name of the builtins module.
Reachable(g) ==
    IF "__builtins__" \in g THEN g \cup safe_builtins \cup AmbientNames ELSE g

\* body / event parsing, lines 39-49
PyParse ==
    /\ ppc = "start"
    /\ timeout_seconds' = PyTimeoutSeconds(timeout)
    /\ ppc' = "validate"
    /\ UNCHANGED << user_code, test_input, timeout, alarm, sys_stdout,
                    sys_stderr, restricted_globals, caught, unwinding, py_success,
                    stderr_capture, stdout_capture, fired_at, py_response >>
    /\ UNCHANGED notPyVars

\* if not user_code.strip() / if len(user_code) > 50000
PyReject ==
    /\ ppc = "validate"
    /\ user_code \in {"blank", "toolarge"}
    /\ py_response' = IF user_code = "blank"
                        THEN create_error_response("No code provided", 400)
                        ELSE create_error_response("Code too large (max 50KB)", 400)
    /\ ppc' = "returned"
    /\ UNCHANGED << user_code, test_input, timeout, timeout_seconds, alarm,
                    sys_stdout, sys_stderr, restricted_globals, caught,
                    unwinding, py_success, stderr_capture, stdout_capture,
                    fired_at >>
    /\ UNCHANGED notPyVars

\* signal.signal(signal.SIGALRM, timeout_handler); signal.alarm(timeout_seconds)
PyArm ==
    /\ ppc = "validate"
    /\ user_code \notin {"blank", "toolarge"}
    /\ alarm' = AlarmSet(timeout_seconds)
    /\ ppc' = "setup"
    /\ UNCHANGED << user_code, test_input, timeout, timeout_seconds, sys_stdout,
                    sys_stderr, restricted_globals, caught, unwinding, py_success,
                    stderr_capture, stdout_capture, fired_at, py_response >>
    /\ UNCHANGED notPyVars

\* execute_python_code, lines 97-105: the buffers, the original streams,
\* restricted_globals = create_restricted_globals()
PySetup ==
    /\ ppc = "setup"
    /\ restricted_globals' = create_restricted_globals
    /\ ppc' = "redirect_out"
    /\ UNCHANGED << user_code, test_input, timeout, timeout_seconds, alarm,
                    sys_stdout, sys_stderr, caught, unwinding, py_success,
                    stderr_capture, stdout_capture, fired_at, py_response >>
    /\ UNCHANGED notPyVars

\* sys.stdout = stdout_capture
PyRedirectOut ==
    /\ ppc = "redirect_out"
    /\ sys_stdout' = "capture"
    /\ ppc' = "redirect_err"
    /\ UNCHANGED << user_code, test_input, timeout, timeout_seconds, alarm,
                    sys_stderr, restricted_globals, caught, unwinding, py_success,
                    stderr_capture, stdout_capture, fired_at, py_response >>
    /\ UNCHANGED notPyVars

\* sys.stderr = stderr_capture
PyRedirectErr ==
    /\ ppc = "redirect_err"
    /\ sys_stderr' = "capture"
    /\ ppc' = "inject"
    /\ UNCHANGED << user_code, test_input, timeout, timeout_seconds, alarm,
                    sys_stdout, restricted_globals, caught, unwinding, py_success,
                    stderr_capture, stdout_capture, fired_at, py_response >>
    /\ UNCHANGED notPyVars

\* if test_input is not None: restricted_globals['test_input'] = test_input
PyInject ==
    /\ ppc = "inject"
    /\ restricted_globals' = IF test_input # << >>
                               THEN restricted_globals \cup {"test_input"}
                               ELSE restricted_globals
    /\ ppc' = "call_exec"
    /\ UNCHANGED << user_code, test_input, timeout, timeout_seconds, alarm,
                    sys_stdout, sys_stderr, caught, unwinding, py_success,
                    stderr_capture, stdout_capture, fired_at, py_response >>
    /\ UNCHANGED notPyVars

\* exec(code, restricted_globals): the call is entered
PyExecEnter ==
    /\ ppc = "call_exec"
    /\ restricted_globals' = ExecGlobals(restricted_globals)
    /\ ppc' = "exec"
    /\ UNCHANGED << user_code, test_input, timeout, timeout_seconds, alarm,
                    sys_stdout, sys_stderr, caught, unwinding, py_success,
                    stderr_capture, stdout_capture, fired_at, py_response >>
    /\ UNCHANGED notPyVars

\* The code calls print: the text goes to what sys.stdout is bound to, the
\* buffer stdout_capture.
PyPrint ==
    /\ ppc = "exec" /\ sys_stdout = "capture"
    /\ stdout_capture = EmptyText
    /\ stdout_capture' = ProgramOut
    /\ UNCHANGED << user_code, test_input, timeout, timeout_seconds, ppc, alarm,
                    sys_stdout, sys_stderr, restricted_globals, caught,
                    unwinding, py_success, stderr_capture, fired_at,
                    py_response >>
    /\ UNCHANGED notPyVars

\* The code ends; success = True
PyExecCompletes ==
    /\ ppc = "exec" /\ user_code \in {"ok", "catcher"}
    /\ py_success' = << TRUE >>
    /\ ppc' = "finally_out"
    /\ UNCHANGED << user_code, test_input, timeout, timeout_seconds, alarm,
                    sys_stdout, sys_stderr, restricted_globals, caught,
                    unwinding, stderr_capture, stdout_capture, fired_at,
                    py_response >>
    /\ UNCHANGED notPyVars

\* The code raises: except Exception as e
PyExecRaises ==
    /\ ppc = "exec" /\ user_code = "raises"
    /\ caught' = "user"
    /\ ppc' = "except_write"
    /\ UNCHANGED << user_code, test_input, timeout, timeout_seconds, alarm,
                    sys_stdout, sys_stderr, restricted_globals, unwinding,
                    py_success, stderr_capture, stdout_capture, fired_at,
                    py_response >>
    /\ UNCHANGED notPyVars

\* sys.stderr.write(f"{type(e).__name__}: {str(e)}\\n");
\* sys.stderr.write(traceback.format_exc()): to what sys.stderr is bound to
PyExceptWrite ==
    /\ ppc = "except_write"
    /\ stderr_capture' =
          IF sys_stderr = "capture"
            THEN Append(stderr_capture,
                        IF caught = "timeout" THEN TimeoutErrorText ELSE UserErrorText)
            ELSE stderr_capture
    /\ ppc' = "except_set"
    /\ UNCHANGED << user_code, test_input, timeout, timeout_seconds, alarm,
                    sys_stdout, sys_stderr, restricted_globals, caught,
                    unwinding, py_success, stdout_capture, fired_at, py_response >>
    /\ UNCHANGED notPyVars

\* success = False
PyExceptSet ==
    /\ ppc = "except_set"
    /\ py_success' = << FALSE >>
    /\ ppc' = "finally_out"
    /\ UNCHANGED << user_code, test_input, timeout, timeout_seconds, alarm,
                    sys_stdout, sys_stderr, restricted_globals, caught,
                    unwinding, stderr_capture, stdout_capture, fired_at,
                    py_response >>
    /\ UNCHANGED notPyVars

\* finally: sys.stdout = original_stdout
PyRestoreOut ==
    /\ ppc = "finally_out"
    /\ sys_stdout' = "original"
    /\ ppc' = "finally_err"
    /\ UNCHANGED << user_code, test_input, timeout, timeout_seconds, alarm,
                    sys_stderr, restricted_globals, caught, unwinding, py_success,
                    stderr_capture, stdout_capture, fired_at, py_response >>
    /\ UNCHANGED notPyVars

\* sys.stderr = original_stderr; then the return statement, or the
\* exception that entered the finally block goes on to lambda_handler
PyRestoreErr ==
    /\ ppc = "finally_err"
    /\ sys_stderr' = "original"
    /\ ppc' = IF unwinding = "none" THEN "return_dict" ELSE "disarm"
    /\ UNCHANGED << user_code, test_input, timeout, timeout_seconds, alarm,
                    sys_stdout, restricted_globals, caught, unwinding, py_success,
                    stderr_capture, stdout_capture, fired_at, py_response >>
    /\ UNCHANGED notPyVars

\* return {'success': ..., 'stdout': ..., 'stderr': ...} and, in
\* lambda_handler, the 200 response is built (lines 67-79)
PyReturnDict ==
    /\ ppc = "return_dict"
    /\ ppc' = "disarm"
    /\ UNCHANGED << user_code, test_input, timeout, timeout_seconds, alarm,
                    sys_stdout, sys_stderr, restricted_globals, caught,
                    unwinding, py_success, stderr_capture, stdout_capture,
                    fired_at, py_response >>
    /\ UNCHANGED notPyVars

\* finally: signal.alarm(0)
PyDisarm ==
    /\ ppc = "disarm"
    /\ alarm' = Disarm(alarm)
    /\ ppc' = "respond"
    /\ UNCHANGED << user_code, test_input, timeout, timeout_seconds, sys_stdout,
                    sys_stderr, restricted_globals, caught, unwinding, py_success,
                    stderr_capture, stdout_capture, fired_at, py_response >>
    /\ UNCHANGED notPyVars

\* except TimeoutError: return create_error_response("Execution timed out", 408)
\* or the 200 response is returned
PyRespond ==
    /\ ppc = "respond"
    /\ py_response' = IF unwinding = "timeout"
                        THEN create_error_response(TimedOutMsg, 408)
                        ELSE PyExecuted(py_success = << TRUE >>, stdout_capture,
                                        stderr_capture)
    /\ ppc' = "returned"
    /\ UNCHANGED << user_code, test_input, timeout, timeout_seconds, alarm,
                    sys_stdout, sys_stderr, restricted_globals, caught,
                    unwinding, py_success, stderr_capture, stdout_capture,
                    fired_at >>
    /\ UNCHANGED notPyVars

\* The positions of execute_python_code's try suite (lines 108-124): an
\* exception raised there is handled by `except Exception`.
InTry == {"redirect_out", "redirect_err", "inject", "call_exec", "exec"}

\* SIGALRM is delivered and timeout_handler raises TimeoutError in the main
\* thread, wherever it is between signal.alarm(timeout_seconds) and
\* signal.alarm(0).  TimeoutError is an Exception: inside the try suite the
\* except clause of execute_python_code catches it, and inside the submitted
\* code an except clause of that code catches it first.  Raised in the
\* except block it passes through the finally block; raised in the finally
\* block it leaves the rest of that block unexecuted.
AlarmFires ==
    /\ alarm = "armed"
    /\ ppc \in InTry \cup {"setup", "except_write", "except_set", "finally_out",
                           "finally_err", "return_dict", "disarm"}
    /\ alarm' = "fired"
    /\ fired_at' = ppc
    /\ CASE ppc = "exec" /\ user_code = "catcher" ->
              UNCHANGED << ppc, caught, unwinding >>
         [] ppc \in InTry /\ ~(ppc = "exec" /\ user_code = "catcher") ->
              /\ caught' = "timeout"
              /\ ppc' = "except_write"
              /\ UNCHANGED unwinding
         [] ppc \in {"except_write", "except_set"} ->
              /\ unwinding' = "timeout"
              /\ ppc' = "finally_out"
              /\ UNCHANGED caught
         [] ppc \in {"setup", "finally_out", "finally_err", "return_dict"} ->
              /\ unwinding' = "timeout"
              /\ ppc' = "disarm"
              /\ UNCHANGED caught
         [] ppc = "disarm" ->
              /\ unwinding' = "timeout"
              /\ ppc' = "respond"
              /\ UNCHANGED caught
    /\ UNCHANGED << user_code, test_input, timeout, timeout_seconds, sys_stdout,
                    sys_stderr, restricted_globals, py_success, stderr_capture,
                    stdout_capture, py_response >>
    /\ UNCHANGED notPyVars

\* No call of python-judge is in progress.
PyIdle ==
    /\ user_code = "blank"
    /\ test_input = << >>
    /\ timeout = 10
    /\ timeout_seconds = 10
    /\ ppc = "idle"
    /\ alarm = "unarmed"
    /\ sys_stdout = "original"
    /\ sys_stderr = "original"
    /\ restricted_globals = {}
    /\ caught = "none"
    /\ unwinding = "none"
    /\ py_success = << >>
    /\ stderr_capture = << >>
    /\ stdout_capture = EmptyText
    /\ fired_at = "none"
    /\ py_response = NoResponse

----------------------------------------------------------------------------
(* Workspaces: the directory and the files of the compile-and-run handlers *)
(* (execute_go_code, execute_csharp_code, execute_java_code; java-judge    *)
(* lambda_handler), for two invocations of the same handler.               *)

Invocations == {1, 2}

\* A directory is named by a number: 0 is '/tmp/workspace', the path every
\* invocation of a container handler uses; i is the directory
\* tempfile.TemporaryDirectory() makes for invocation i of java-judge.
SharedWorkspace == 0

Dirs == {SharedWorkspace} \cup Invocations

\* The files of a workspace: the source file (main.go, Program.cs,
\* <class>.java), the module file (go.mod, CSharpExecution.csproj) and the
\* compiled artifact (main, the build output, <class>.class).  Both
\* invocations submit a class of the same name.
FileNames == {"source", "module", "artifact"}

Paths == Dirs \X FileNames

\* The content of a file is named by the invocation whose submission it
\* holds or was compiled from; Absent: there is no such file.
Absent == 0

WsCodeKinds == {"runnable", "noentry", "uncompilable"}

\* workspace = '/tmp/workspace' / with tempfile.TemporaryDirectory() as temp_dir
WorkspaceOf(prog, i) == IF prog = "java-judge" THEN i ELSE SharedWorkspace

\* subprocess.run(['rm', '-rf', f'{workspace}/*'], shell=True, check=False):
\* with shell=True the first element alone is the command line, so `rm` runs
\* without operands, fails with "missing operand" and removes nothing.
CleanWorkspace(f, d) == f

\* TemporaryDirectory.__exit__: the directory and all its files are removed.
RemoveTree(f, d) == [p \in Paths |-> IF p[1] = d THEN Absent ELSE f[p]]

\* An invocation is received.
WsStart(i) ==
    /\ wpc[i] = "idle"
    /\ wpc' = [wpc EXCEPT ![i] = "makedirs"]
    /\ UNCHANGED << ws_program, ws_code, dirs, fs, compiled, executed >>
    /\ UNCHANGED notWsVars

\* os.makedirs(workspace, exist_ok=True) / TemporaryDirectory().__enter__
WsMakedirs(i) ==
    /\ wpc[i] = "makedirs"
    /\ dirs' = dirs \cup {WorkspaceOf(ws_program, i)}
    /\ wpc' = [wpc EXCEPT ![i] = IF ws_program = "java-judge" THEN "entry" ELSE "clean"]
    /\ UNCHANGED << ws_program, ws_code, fs, compiled, executed >>
    /\ UNCHANGED notWsVars

\* # Clean workspace
WsClean(i) ==
    /\ wpc[i] = "clean"
    /\ fs' = CleanWorkspace(fs, WorkspaceOf(ws_program, i))
    /\ wpc' = [wpc EXCEPT ![i] = IF ws_program = "java" THEN "entry" ELSE "module"]
    /\ UNCHANGED << ws_program, ws_code, dirs, compiled, executed >>
    /\ UNCHANGED notWsVars

\* go: subprocess.run(['go', 'mod', 'init', 'execution'], check=False), which
\* leaves an existing go.mod alone; csharp: the .csproj file is written.
WsModule(i) ==
    /\ wpc[i] = "module"
    /\ LET p == << WorkspaceOf(ws_program, i), "module" >>
       IN  fs' = IF ws_program = "go" /\ fs[p] # Absent
                   THEN fs
                   ELSE [fs EXCEPT ![p] = i]
    /\ wpc' = [wpc EXCEPT ![i] = "write"]
    /\ UNCHANGED << ws_program, ws_code, dirs, compiled, executed >>
    /\ UNCHANGED notWsVars

\* java, java-judge: class_name = extract_class_name(code) /
\* main_class = extract_main_class(source_code); if not ...: return
WsEntry(i) ==
    /\ wpc[i] = "entry"
    /\ wpc' = [wpc EXCEPT ![i] =
                 IF ws_code[i] = "noentry"
                   THEN (IF ws_program = "java-judge" THEN "cleanup" ELSE "returned")
                   ELSE "write"]
    /\ UNCHANGED << ws_program, ws_code, dirs, fs, compiled, executed >>
    /\ UNCHANGED notWsVars

\* with open(go_file, 'w') as f: f.write(wrapped_code)
WsWrite(i) ==
    /\ wpc[i] = "write"
    /\ fs' = [fs EXCEPT ![<< WorkspaceOf(ws_program, i), "source" >>] = i]
    /\ wpc' = [wpc EXCEPT ![i] = "compile"]
    /\ UNCHANGED << ws_program, ws_code, dirs, compiled, executed >>
    /\ UNCHANGED notWsVars

\* The compile step: the compiler reads the source file that is in the
\* workspace now and, on success, writes the artifact.  A failed compile
\* returns (java-judge: leaves the with block).
WsCompile(i) ==
    /\ wpc[i] = "compile"
    /\ LET d == WorkspaceOf(ws_program, i)
           origin == fs[<< d, "source" >>]
       IN  IF ws_code[origin] = "uncompilable"
             THEN /\ wpc' = [wpc EXCEPT ![i] =
                               IF ws_program = "java-judge" THEN "cleanup" ELSE "returned"]
                  /\ UNCHANGED << fs, compiled >>
             ELSE /\ fs' = [fs EXCEPT ![<< d, "artifact" >>] = origin]
                  /\ compiled' = [compiled EXCEPT ![i] = origin]
                  /\ wpc' = [wpc EXCEPT ![i] = "run"]
    /\ UNCHANGED << ws_program, ws_code, dirs, executed >>
    /\ UNCHANGED notWsVars

\* The run step: ['./main'] / dotnet run / java <class> in the workspace
\* executes the artifact that is there now.
WsRun(i) ==
    /\ wpc[i] = "run"
    /\ executed' = [executed EXCEPT ![i] = fs[<< WorkspaceOf(ws_program, i), "artifact" >>]]
    /\ wpc' = [wpc EXCEPT ![i] = IF ws_program = "java-judge" THEN "cleanup" ELSE "returned"]
    /\ UNCHANGED << ws_program, ws_code, dirs, fs, compiled >>
    /\ UNCHANGED notWsVars

\* java-judge: the with block is left, by return or by exception.
WsCleanup(i) ==
    /\ wpc[i] = "cleanup"
    /\ fs' = RemoveTree(fs, WorkspaceOf(ws_program, i))
    /\ dirs' = dirs \ {WorkspaceOf(ws_program, i)}
    /\ wpc' = [wpc EXCEPT ![i] = "returned"]
    /\ UNCHANGED << ws_program, ws_code, compiled, executed >>
    /\ UNCHANGED notWsVars

\* No invocation uses a workspace.
WsIdle ==
    /\ ws_program = "go"
    /\ ws_code = [i \in Invocations |-> "runnable"]
    /\ dirs = {}
    /\ fs = [p \in Paths |-> Absent]
    /\ wpc = [i \in Invocations |-> "done"]
    /\ compiled = [i \in Invocations |-> Absent]
    /\ executed = [i \in Invocations |-> Absent]

----------------------------------------------------------------------------
(* Limits: how each handler turns the client's time limit and memory limit *)
(* into the ceilings it hands to the compile step, the run step, the alarm *)
(* and the JVM.                                                            *)

LimPrograms == Programs \cup {"python-judge", "sql-judge"}

\* The submission: "blank" is empty after strip(), "toolarge" has more than
\* 50000 characters, "runnable" is any other text.
LimCodeKinds == {"blank", "runnable", "toolarge"}

MemoryLimits == {-1, 0, 1, 512, 513}

\* Mutant: the client's time limit is used as it is.
JJTimeLimit_Unclamped(t) == t

\* java-judge: time_limit = min(body.get('time_limit', 10), 30)
JJTimeLimit(t) == Min(t, 30)

\* java-judge: memory_limit = min(body.get('memory_limit', 128), 512)
JJMemoryLimit(m) == Min(m, 512)

\* containers: timeout_seconds = min(int(body.get('timeout', 25)), 25)
ContainerTimeout(t) == Min(t, 25)

\* sql-judge: timeout_seconds = min(event.get('timeout', 30), 60)
SJTimeout(t) == Min(t, 60)

\* The time ceiling a handler computes from the client's value.
TimeLimitOf(prog, t) ==
    CASE prog = "java-judge" -> JJTimeLimit(t)
      [] prog = "python-judge" -> PyTimeoutSeconds(t)
      [] prog = "sql-judge" -> SJTimeout(t)
      [] OTHER -> ContainerTimeout(t)

\* The memory ceiling: only java-judge reads a memory limit.
MemoryLimitOf(prog, m) ==
    IF prog = "java-judge" THEN << JJMemoryLimit(m) >> ELSE << >>

\* timeout= of the compile step: java-judge passes time_limit, the
\* containers a literal (go 10, csharp 15, java 10); python-judge has none.
CompileTimeoutOf(prog, limit) ==
    CASE prog = "java-judge" -> << limit >>
      [] prog = "python-judge" -> << >>
      [] prog = "csharp" -> << 15 >>
      [] OTHER -> << 10 >>

\* Body parsing: the ceilings are computed.
LimParse ==
    /\ lpc = "start"
    /\ time_limit' = << TimeLimitOf(lim_program, time_in) >>
    /\ memory_limit' = MemoryLimitOf(lim_program, memory_in)
    /\ lpc' = "validate"
    /\ UNCHANGED << lim_program, lim_code, time_in, memory_in, compile_timeout,
                    run_timeout, heap_mb, lim_outcome >>
    /\ UNCHANGED notLimVars

\* The submissions a handler turns away after parsing.  Every handler: one
\* that is empty after strip().  python-judge: len(user_code) > 50000;
\* sql-judge: len(user_sql) > 10000.  The containers and java-judge test no
\* length.
Rejects(prog, kind) ==
    \/ kind = "blank"
    \/ kind = "toolarge" /\ prog \in {"python-judge", "sql-judge"}

LimReject ==
    /\ lpc = "validate" /\ Rejects(lim_program, lim_code)
    /\ lim_outcome' = IF lim_code = "blank" THEN "no code" ELSE "too large"
    /\ lpc' = "returned"
    /\ UNCHANGED << lim_program, lim_code, time_in, memory_in, time_limit,
                    memory_limit, compile_timeout, run_timeout, heap_mb >>
    /\ UNCHANGED notLimVars

\* sql-judge: validate_sql_security(user_sql).  The pattern
\* rf'\\b{func}\\s*\\(' of its second loop is no regular expression
\* (unbalanced parenthesis): re.search raises re.error, lambda_handler
\* answers "Query execution failed: ..." and execute_sql_query is not called.
LimSecurity ==
    /\ lpc = "validate" /\ lim_program = "sql-judge"
    /\ ~Rejects(lim_program, lim_code)
    /\ lim_outcome' = "failed"
    /\ lpc' = "returned"
    /\ UNCHANGED << lim_program, lim_code, time_in, memory_in, time_limit,
                    memory_limit, compile_timeout, run_timeout, heap_mb >>
    /\ UNCHANGED notLimVars

\* subprocess.run(<compiler>, timeout=...); python-judge goes on to the alarm
LimCompile ==
    /\ lpc = "validate" /\ lim_program # "sql-judge"
    /\ ~Rejects(lim_program, lim_code)
    /\ compile_timeout' = CompileTimeoutOf(lim_program, time_limit[1])
    /\ lpc' = "run"
    /\ UNCHANGED << lim_program, lim_code, time_in, memory_in, time_limit,
                    memory_limit, run_timeout, heap_mb, lim_outcome >>
    /\ UNCHANGED notLimVars

\* subprocess.run(<program>, timeout=...) / signal.alarm(timeout_seconds);
\* java-judge: f'-Xmx{memory_limit}m'
LimRun ==
    /\ lpc = "run"
    /\ run_timeout' = time_limit
    /\ heap_mb' = memory_limit
    /\ lim_outcome' = "processed"
    /\ lpc' = "returned"
    /\ UNCHANGED << lim_program, lim_code, time_in, memory_in, time_limit,
                    memory_limit, compile_timeout >>
    /\ UNCHANGED notLimVars

\* No request is being parsed.
LimIdle ==
    /\ lim_program = "go"
    /\ lim_code = "blank"
    /\ time_in = 10
    /\ memory_in = 128
    /\ time_limit = << >>
    /\ memory_limit = << >>
    /\ compile_timeout = << >>
    /\ run_timeout = << >>
    /\ heap_mb = << >>
    /\ lim_outcome = "none"
    /\ lpc = "idle"

----------------------------------------------------------------------------
(* Source preparation: what each compile-and-run handler writes to the     *)
(* source file for a submission (execute_go_code, execute_csharp_code,     *)
(* execute_java_code; java-judge lambda_handler).                          *)

MaxTokens == 3

\* A source text is a sequence of tokens: "ws" is white space (blanks, line
\* ends), the others are pieces of text the handlers look for, and "stmt" is
\* any other code.  "public class" is a line `public class A ...`,
\* "public class B" a line `public class B ...`, "class C" a line
\* `class C ...`.
Tokens ==
    {"ws", "stmt", "package main", "func main()", "static void Main",
     "static async Task Main", "public class", "public class B", "class C",
     "public static void main"}

PublicClassTokens == {"public class", "public class B"}

ClassTokens == PublicClassTokens \cup {"class C"}

\* The class name a declaration declares.
ClassNameOf(tok) ==
    CASE tok = "public class" -> "A"
      [] tok = "public class B" -> "B"
      [] OTHER -> "C"

\* The synthetic text the handlers add: "wrapper head" is the head of the Go
\* template (package main, the imports, func main() {), "cs wrapper head" the
\* head of the C# template (the usings, class Program, static void
\* Main(string[] args)), "package line" is 'package main' and two line ends.
WrapperTokens ==
    {"wrapper head", "cs wrapper head", "wrapper tail", "indent", "package line"}

Texts == UNION { [1..n -> Tokens] : n \in 1..MaxTokens }

\* The pieces of text a needle occurs in: the piece itself and the synthetic
\* pieces that hold it.
Holders(tok) ==
    CASE tok = "package main" -> {tok, "wrapper head", "package line"}
      [] tok = "func main()" -> {tok, "wrapper head"}
      [] tok = "static void Main" -> {tok, "cs wrapper head"}
      [] OTHER -> {tok}

\* needle in code
Contains(text, tok) == \E i \in DOMAIN text : text[i] \in Holders(tok)

\* text.strip(): leading and trailing white space removed
Strip(text) ==
    LET solid == { i \in DOMAIN text : text[i] # "ws" }
    IN  IF solid = {} THEN << >>
        ELSE LET first == CHOOSE i \in solid : \A j \in solid : i <= j
                 last == CHOOSE i \in solid : \A j \in solid : j <= i
             IN  SubSeq(text, first, last)

\* indent_code(code, spaces): every line that is not blank gets a prefix
RECURSIVE indent_code(_)
indent_code(text) ==
    IF text = << >> THEN << >>
    ELSE (IF Head(text) = "ws" THEN << "ws" >> ELSE << "indent", Head(text) >>)
             \o indent_code(Tail(text))

\* Mutant: every Go submission is wrapped.
GoPrepare_AlwaysWrap(text) ==
    << "wrapper head" >> \o indent_code(text) \o << "wrapper tail" >>

\* Go, lines 64-83: wrap a code without 'func main()', prefix a code without
\* 'package main', otherwise leave it alone.
GoPrepare(text) ==
    IF ~Contains(text, "func main()")
      THEN << "wrapper head" >> \o indent_code(text) \o << "wrapper tail" >>
      ELSE IF ~Contains(text, "package main")
             THEN << "package line" >> \o text
             ELSE text

\* C#, lines 78-91: wrap a code without 'static void Main' and without
\* 'static async Task Main'.
CsPrepare(text) ==
    IF ~Contains(text, "static void Main") /\ ~Contains(text, "static async Task Main")
      THEN << "cs wrapper head" >> \o indent_code(text) \o << "wrapper tail" >>
      ELSE text

\* java-judge: source_code = body.get('source_code', '').strip(), and that
\* is what f.write(source_code) writes.  The Java container writes code.
PreparedSource(prog, text) ==
    CASE prog = "go" -> GoPrepare(text)
      [] prog = "csharp" -> CsPrepare(text)
      [] prog = "java" -> text
      [] prog = "java-judge" -> Strip(text)

\* The name declared by the first token of `text` that is in `decls`, << >>
\* when there is none: re.search / the loop over the lines.
FirstDeclared(text, decls) ==
    LET hits == { i \in DOMAIN text : text[i] \in decls }
    IN  IF hits = {} THEN << >>
        ELSE << ClassNameOf(text[CHOOSE i \in hits : \A j \in hits : i <= j]) >>

\* java-judge extract_main_class: the first line that starts with
\* 'public class ' gives the name, if 'public static void main' is in the
\* source; None otherwise.
extract_main_class(text) ==
    IF Contains(text, "public static void main")
      THEN FirstDeclared(text, PublicClassTokens)
      ELSE << >>

\* Java container extract_class_name: the first match of
\* public\s+class\s+(\w+), else the first match of class\s+(\w+), else None.
extract_class_name(text) ==
    IF FirstDeclared(text, PublicClassTokens) # << >>
      THEN FirstDeclared(text, PublicClassTokens)
      ELSE FirstDeclared(text, ClassTokens)

\* The entry point a Java handler detects.
DetectedClass(prog, text) ==
    CASE prog = "java" -> extract_class_name(text)
      [] prog = "java-judge" -> extract_main_class(Strip(text))
      [] OTHER -> << >>

\* if not class_name / if not main_class: only the Java handlers look for an
\* entry point before they write the source file.
EntryFound(prog, text) ==
    prog \in {"java", "java-judge"} => DetectedClass(prog, text) # << >>

\* if not code.strip(): return ...
PrepReject ==
    /\ prep_pc = "start"
    /\ Strip(submitted) = << >>
    /\ prep_pc' = "rejected"
    /\ UNCHANGED << prep_program, submitted, prepared, main_class >>
    /\ UNCHANGED notPrepVars

\* Java: no class name, nothing is written
PrepNoEntry ==
    /\ prep_pc = "start"
    /\ Strip(submitted) # << >>
    /\ ~EntryFound(prep_program, submitted)
    /\ prep_pc' = "noentry"
    /\ UNCHANGED << prep_program, submitted, prepared, main_class >>
    /\ UNCHANGED notPrepVars

\* with open(<source file>, 'w') as f: f.write(...)
PrepWrite ==
    /\ prep_pc = "start"
    /\ Strip(submitted) # << >>
    /\ EntryFound(prep_program, submitted)
    /\ prepared' = PreparedSource(prep_program, submitted)
    /\ main_class' = DetectedClass(prep_program, submitted)
    /\ prep_pc' = "written"
    /\ UNCHANGED << prep_program, submitted >>
    /\ UNCHANGED notPrepVars

\* No submission is being prepared.
PrepIdle ==
    /\ prep_program = "go"
    /\ submitted = << >>
    /\ prepared = << >>
    /\ main_class = << >>
    /\ prep_pc = "idle"

----------------------------------------------------------------------------
(* One invocation of a process runner.                                     *)

RunnerInit ==
    /\ program \in Programs
    /\ as_script \in IF program = "java-judge" THEN BOOLEAN ELSE {FALSE}
    /\ code \in CodeKinds
    /\ pc = "start"
    /\ compiler = "none"
    /\ compile_result = "none"
    /\ thread = "unstarted"
    /\ child = "none"
    /\ child_out = EmptyText
    /\ child_err = EmptyText
    /\ child_rc = 0
    /\ desc = "none"
    /\ result = InitialResult
    /\ watchdog = "none"
    /\ args = NoArgs
    /\ response = NoResponse

\* The validator is not called during a runner invocation.
SqlIdle ==
    /\ backend = "sqlite"
    /\ array_cols = {}
    /\ binary_cols = {}
    /\ schema_setup = << >>
    /\ reference_solution = "absent"
    /\ user_query = "absent"
    /\ vpc = "idle"
    /\ stmt_index = 1
    /\ conn = "none"
    /\ txn = "none"
    /\ db_committed = {}
    /\ db_working = {}
    /\ expected = NoResult
    /\ user = NoResult
    /\ exc = "none"
    /\ vresult = NoValidation
    /\ vresponse = NoBody
    /\ log = << >>

Init == RunnerInit /\ SqlIdle /\ PyIdle /\ WsIdle /\ LimIdle /\ PrepIdle

Next ==
    \/ RejectBlank
    \/ EnterExecute
    \/ Prepare
    \/ CompileStart
    \/ \E outcome \in CompileOutcomes : CompileEnd(outcome)
    \/ ThreadStart
    \/ JoinReturns
    \/ JoinExpires
    \/ IsAlive
    \/ MainSetTimeout
    \/ MainSetStderr
    \/ ReadSuccess
    \/ ReadStdout
    \/ ReadStderr
    \/ Respond
    \/ WorkerSpawn
    \/ ChildWrite
    \/ ChildFork
    \/ \E rc \in ExitCodes : ChildExit(rc)
    \/ DescExit
    \/ WorkerCompleted
    \/ WorkerTimeoutExpired
    \/ WorkerStoreReturncode
    \/ WorkerStoreStdout
    \/ WorkerStoreStderr
    \/ WorkerStoreSuccess
    \/ WorkerStoreTimeout
    \/ WorkerStoreTimeoutMsg
    \/ WorkerStoreError
    \/ JJRejectBlank
    \/ JJEnter
    \/ JJExtract
    \/ JJCompileStart
    \/ \E outcome \in CompileOutcomes : JJCompileEnd(outcome)
    \/ JJExecuteStart
    \/ JJCompleted
    \/ JJTimeoutExpired
    \/ JJRespond

Spec == Init /\ [][Next]_vars

----------------------------------------------------------------------------
(* One call of the SQL capsule validator.                                  *)

\* No runner is invoked during a validation call.
RunnerIdle ==
    /\ program = "go"
    /\ as_script = FALSE
    /\ code = "blank"
    /\ pc = "idle"
    /\ compiler = "none"
    /\ compile_result = "none"
    /\ thread = "unstarted"
    /\ child = "none"
    /\ child_out = EmptyText
    /\ child_err = EmptyText
    /\ child_rc = 0
    /\ desc = "none"
    /\ result = InitialResult
    /\ watchdog = "none"
    /\ args = NoArgs
    /\ response = NoResponse

SqlInit ==
    /\ backend \in {"sqlite", "postgres", "judge"}
    /\ array_cols \in IF backend = "postgres" THEN {{}, {"b"}} ELSE {{}}
    /\ binary_cols \in IF backend = "judge" THEN {{}} ELSE {{}, {"a"}}
    /\ schema_setup \in IF backend = "judge" THEN {<< >>} ELSE SchemaInputs
    /\ reference_solution \in IF backend = "judge" THEN {"absent"} ELSE ReferenceKinds
    /\ user_query \in UserKinds
    /\ vpc = "start"
    /\ stmt_index = 1
    /\ conn = "none"
    /\ txn = "none"
    /\ db_committed = {}
    /\ db_working = {}
    /\ expected = NoResult
    /\ user = NoResult
    /\ exc = "none"
    /\ vresult = NoValidation
    /\ vresponse = NoBody
    /\ log = << >>

InitSql == RunnerIdle /\ SqlInit /\ PyIdle /\ WsIdle /\ LimIdle /\ PrepIdle

NextSql ==
    \/ VReject
    \/ VDispatch
    \/ Connect
    \/ Begin
    \/ SchemaStatement
    \/ SchemaDone
    \/ Reference
    \/ UserAbsent
    \/ UserSelect
    \/ UserMutate
    \/ UserCommit
    \/ UserFails
    \/ Rollback
    \/ Finally
    \/ VRespond
    \/ SJConfig
    \/ SJConnect
    \/ SJExecute
    \/ SJFinally

SpecSql == InitSql /\ [][NextSql]_vars

----------------------------------------------------------------------------
(* One invocation of python-judge.                                         *)

PyInit ==
    /\ user_code \in PyCodeKinds
    /\ test_input \in TestInputs
    /\ timeout \in Timeouts
    /\ timeout_seconds = 10
    /\ ppc = "start"
    /\ alarm = "unarmed"
    /\ sys_stdout = "original"
    /\ sys_stderr = "original"
    /\ restricted_globals = {}
    /\ caught = "none"
    /\ unwinding = "none"
    /\ py_success = << >>
    /\ stderr_capture = << >>
    /\ stdout_capture = EmptyText
    /\ fired_at = "none"
    /\ py_response = NoResponse

InitPy == RunnerIdle /\ SqlIdle /\ PyInit /\ WsIdle /\ LimIdle /\ PrepIdle

NextPy ==
    \/ PyParse
    \/ PyReject
    \/ PyArm
    \/ PySetup
    \/ PyRedirectOut
    \/ PyRedirectErr
    \/ PyInject
    \/ PyExecEnter
    \/ PyPrint
    \/ PyExecCompletes
    \/ PyExecRaises
    \/ PyExceptWrite
    \/ PyExceptSet
    \/ PyRestoreOut
    \/ PyRestoreErr
    \/ PyReturnDict
    \/ PyDisarm
    \/ PyRespond
    \/ AlarmFires

SpecPy == InitPy /\ [][NextPy]_vars

----------------------------------------------------------------------------
(* Two invocations of one compile-and-run handler in one container.        *)

\* A submission without an entry point is a case of the Java handlers only.
WsInit ==
    /\ ws_program \in Programs
    /\ ws_code \in [Invocations -> WsCodeKinds]
    /\ \A i \in Invocations :
          ws_code[i] = "noentry" => ws_program \in {"java", "java-judge"}
    /\ dirs = {}
    /\ fs = [p \in Paths |-> Absent]
    /\ wpc = [i \in Invocations |-> "idle"]
    /\ compiled = [i \in Invocations |-> Absent]
    /\ executed = [i \in Invocations |-> Absent]

InitWs == RunnerIdle /\ SqlIdle /\ PyIdle /\ WsInit /\ LimIdle /\ PrepIdle

NextWs ==
    \E i \in Invocations :
        \/ WsStart(i)
        \/ WsMakedirs(i)
        \/ WsClean(i)
        \/ WsModule(i)
        \/ WsEntry(i)
        \/ WsWrite(i)
        \/ WsCompile(i)
        \/ WsRun(i)
        \/ WsCleanup(i)

SpecWs == InitWs /\ [][NextWs]_vars

----------------------------------------------------------------------------
(* One request with a client-supplied time limit and memory limit.         *)

LimInit ==
    /\ lim_program \in LimPrograms
    /\ lim_code \in LimCodeKinds
    /\ time_in \in Timeouts
    /\ memory_in \in MemoryLimits
    /\ time_limit = << >>
    /\ memory_limit = << >>
    /\ compile_timeout = << >>
    /\ run_timeout = << >>
    /\ heap_mb = << >>
    /\ lim_outcome = "none"
    /\ lpc = "start"

InitLim == RunnerIdle /\ SqlIdle /\ PyIdle /\ WsIdle /\ LimInit /\ PrepIdle

NextLim ==
    \/ LimParse
    \/ LimReject
    \/ LimSecurity
    \/ LimCompile
    \/ LimRun

SpecLim == InitLim /\ [][NextLim]_vars

----------------------------------------------------------------------------
(* One submission on its way to the source file.                           *)

PrepInit ==
    /\ prep_program \in Programs
    /\ submitted \in Texts
    /\ prepared = << >>
    /\ main_class = << >>
    /\ prep_pc = "start"

InitPrep == RunnerIdle /\ SqlIdle /\ PyIdle /\ WsIdle /\ LimIdle /\ PrepInit

NextPrep ==
    \/ PrepReject
    \/ PrepNoEntry
    \/ PrepWrite

SpecPrep == InitPrep /\ [][NextPrep]_vars

----------------------------------------------------------------------------
(* Claims about the process runners, checked under Spec.                   *)

Returned == pc = "returned"

\* The stdout text a caller reads from the response body: the field, and
\* nothing when the body has no such field.
ResponseStdout ==
    IF "stdout" \in DOMAIN response THEN response.stdout ELSE EmptyText

\* The exit code the response body carries, if it carries one.
ResponseExitCode ==
    IF "exit_code" \in DOMAIN response THEN << response.exit_code >> ELSE << >>

\* The run phase ended on its wall-clock ceiling.
RunTimedOut == IF IsContainer THEN result.timeout ELSE child = "killed"

\* C1: when the handler of a container runner has returned, no process
\* spawned during the invocation is still alive, neither the run child nor
\* a descendant of it.
C1_NoProcessOutlivesReturn ==
    (IsContainer /\ Returned) => (child # "running" /\ desc # "running")

\* C2: when the watchdog expired first (join gave up and is_alive() was
\* true), the outcome lambda_handler reports is the timeout outcome:
\* success false, timeout true, the timeout message in stderr.
C2_WatchdogIsAuthoritative ==
    (IsContainer /\ Returned /\ watchdog = "alive") =>
        /\ response.success = FALSE
        /\ response.stderr = ExecutionTimeoutMsg
        /\ result.timeout

\* C3: when the run phase exceeded its ceiling and the invocation has
\* returned, the returned outcome carries exit code 124.
C3_TimeoutExitCode124 ==
    (Returned /\ RunTimedOut) => ResponseExitCode = << TimeoutExitCode >>

\* C4: compile and run are sequential and the run step starts only after
\* the compile step has ended with exit status zero; after a compile step
\* that exited non-zero or timed out no run is ever started and the
\* response carries no stdout text.
RunEntered ==
    \/ thread # "unstarted"
    \/ child # "none"
    \/ pc \in {"thread_start", "execute", "jj_communicate", "jj_respond"}

C4_RunOnlyAfterCompileOk ==
    /\ RunEntered => (compile_result = "ok" /\ compiler = "exited")
    /\ compiler = "running" => ~RunEntered
    /\ (Returned /\ compile_result \in {"error", "timeout"}) =>
           ResponseStdout = EmptyText

\* C4 witness: an invocation has returned after a failed compile step.
C4_Witness ==
    /\ Returned /\ compile_result \in {"error", "timeout"}
    /\ response.statusCode = 400

----------------------------------------------------------------------------
(* Claims about the SQL capsule validator, checked under SpecSql.          *)

VReturned == vpc = "returned"

\* validate_with_postgres has been left: its finally block has run.
ValidateLeft == vpc \in {"respond", "returned"}

Executed(op) == \E i \in DOMAIN log : log[i].op = op

\* The call compared the results of two queries.
Compared == reference_solution = "select" /\ user_query = "select" /\ Executed("user")

\* The number of copies of row r in a list of rows.
Copies(rows, r) == Cardinality({ i \in DOMAIN rows : rows[i] = r })

SameRowsWithMultiplicity(u, e) ==
    \A r \in Range(u) \cup Range(e) : Copies(u, r) = Copies(e, r)

\* C5: in validate_with_postgres the transaction opened with BEGIN has been
\* rolled back (by ROLLBACK, or discarded with the connection) on every path
\* that leaves the function.
C5_TransactionRolledBack ==
    (backend = "postgres" /\ Executed("BEGIN") /\ ValidateLeft)
        => txn \in {"rolled_back", "discarded"}

\* C6: for the postgres backend, after a validation call has returned the
\* committed state of the shared database equals its state before the call.
C6_CommittedStateUnchanged ==
    (backend = "postgres" /\ VReturned) => db_committed = {}

\* C7: a user query that contains a DROP statement is never sent to the
\* database, and the call never reports a success or a result mismatch.
C7_DropNeverExecuted ==
    (user_query = "drop" /\ VReturned)
        => /\ ~Executed("user")
           /\ vresponse.success = FALSE
           /\ vresponse.error # Some(MismatchMsg)

\* C8: a user result with the reference's column sequence and the
\* reference's rows in a different order validates with success = true.
C8_RowOrderIgnored ==
    ( /\ VReturned /\ Compared
      /\ user.cols = expected.cols
      /\ user.rows # expected.rows
      /\ SameRowsWithMultiplicity(user.rows, expected.rows) )
        => vresponse.success = TRUE

\* C9: a validation of a user query succeeds only if the user query's column
\* sequence equals the reference's; the same rows under the same column names
\* in a different order yield success = false.
C9_ColumnOrderSensitive ==
    (VReturned /\ user_query # "absent" /\ vresponse.success = TRUE)
        => user.cols = expected.cols

\* C9 witness: a returned comparison of the same non-empty rows whose column
\* names are the reference's in a different order, reported as a mismatch.
C9_Witness ==
    /\ VReturned /\ Compared
    /\ user.rows # << >>
    /\ RowSet(user.rows) = RowSet(expected.rows)
    /\ Range(user.cols) = Range(expected.cols)
    /\ user.cols # expected.cols
    /\ vresponse.statusCode = 200
    /\ vresponse.success = FALSE
    /\ vresponse.error = Some(MismatchMsg)

\* C10: a user result with the reference's columns and distinct rows but a
\* different number of copies of some row validates with success = false.
C10_DuplicatesCounted ==
    ( /\ VReturned /\ Compared
      /\ user.cols = expected.cols
      /\ RowSet(user.rows) = RowSet(expected.rows)
      /\ ~SameRowsWithMultiplicity(user.rows, expected.rows) )
        => vresponse.success = FALSE

\* C24: a validation without a user query whose schema setup and reference
\* query succeeded is answered with success true, the reference result and
\* its columns, no user result and no error.
C24_ReferenceOnlyOutcome ==
    (VReturned /\ user_query = "absent" /\ vresult = ReferenceOnly(expected))
        => /\ vresponse.success = TRUE
           /\ vresponse.expected_result = Some(expected.rows)
           /\ vresponse.columns = Some(expected.cols)
           /\ vresponse.user_result = None
           /\ vresponse.error = None

\* The phase a statement sent to the database belongs to.
Rank(op) ==
    CASE op = "BEGIN" -> 0
      [] op = "schema" -> 1
      [] op = "reference" -> 2
      [] op = "user" -> 3
      [] OTHER -> 4

\* C25: the statements of schema_setup are executed in the order given, each
\* at most once, all of them before the reference query; a statement that
\* fails is the last statement the call executes.
C25_SchemaInOrder ==
    backend # "judge"
        => /\ \A i, j \in DOMAIN log :
                  (i < j /\ log[j].op = "schema")
                      => \/ log[i].op = "BEGIN"
                         \/ log[i].op = "schema" /\ log[i].n < log[j].n
           /\ Executed("reference")
                  => \A k \in DOMAIN schema_setup :
                         schema_setup[k] # "blank"
                             => \E i \in DOMAIN log : log[i] = Entry("schema", k)
           /\ \A i \in DOMAIN log :
                  (log[i].op = "schema" /\ schema_setup[log[i].n] = "error")
                      => i = Len(log)

\* C25 witness: a call whose second schema statement failed has returned
\* after executing the first and the second statement and nothing else.
C25_Witness ==
    /\ VReturned /\ backend = "sqlite"
    /\ schema_setup = << "ddl", "error", "ddl" >>
    /\ log = << Entry("schema", 1), Entry("schema", 2) >>
    /\ vresponse.success = FALSE

\* C26: the statements are sent phase by phase (BEGIN, schema, reference,
\* user query, ROLLBACK); the user query is executed only after the reference
\* query has returned its rows, a comparison is made only after both were
\* executed, and after a failed schema statement or reference query no later
\* query is executed and the outcome is a failure.
C26_PhasesInOrder ==
    backend # "judge"
        => /\ \A i, j \in DOMAIN log :
                  i < j => \/ Rank(log[i].op) < Rank(log[j].op)
                           \/ log[i].op = "schema" /\ log[j].op = "schema"
           /\ Executed("user")
                  => (Executed("reference") /\ reference_solution = "select")
           /\ vresult.user_result # None
                  => (Executed("reference") /\ Executed("user"))
           /\ (\E k \in DOMAIN schema_setup :
                   schema_setup[k] \in {"error", "nonstring"})
                  => ~Executed("reference")
           /\ reference_solution # "select" => ~Executed("user")
           /\ (VReturned /\ (exc # "none" \/ vresult = DbError))
                  => (vresponse.success = FALSE /\ vresponse.error # None)

\* C26 witness: a postgres validation has gone through every phase and
\* returned the comparison.
C26_Witness ==
    /\ VReturned /\ backend = "postgres"
    /\ log = << Entry("BEGIN", 0), Entry("schema", 1), Entry("reference", 0),
                Entry("user", 0), Entry("ROLLBACK", 0) >>
    /\ vresult = Validated(user, expected)
    /\ vresponse.success = TRUE

\* validate_with_sqlite, validate_with_postgres or execute_sql_query has
\* returned or has been left by an exception.
FunctionLeft == ValidateLeft \/ vpc = "sj_returned"

\* C27: when one of the three functions has been left, the connection it
\* opened is closed.
C27_ConnectionClosed ==
    FunctionLeft => conn # "open"

\* C27 witness: a validation left by an exception that is no database error,
\* with its connection closed.
C27_Witness ==
    /\ ValidateLeft /\ exc = "other"
    /\ conn = "closed"

\* The user result differs from the reference result: in its column
\* sequence, or in its rows counted with their multiplicity.
Differs(u, e) ==
    u.cols # e.cols \/ ~SameRowsWithMultiplicity(u.rows, e.rows)

\* C31: when the user query was executed and its result differs from the
\* reference result, the response has success false, both result sets and
\* an error message; and in every response the error is absent exactly when
\* success is true.
C31_MismatchReported ==
    VReturned
        => /\ (Compared /\ Differs(user, expected))
                  => /\ vresponse.success = FALSE
                     /\ vresponse.user_result = Some(user.rows)
                     /\ vresponse.expected_result = Some(expected.rows)
                     /\ vresponse.error # None
           /\ vresponse.error = None <=> vresponse.success = TRUE

\* The reference query has returned: control is at or past the user-query
\* block.
ReferenceCaptured ==
    backend # "judge" /\ Executed("reference") /\ reference_solution = "select"

\* C34: the reference result is captured before the user query is executed
\* and does not change afterwards; the expected_result a response reports
\* is that result, the columns reported without a user result are the
\* reference's, and the comparison is made against that result.
C34_ExpectedIndependentOfUser ==
    /\ [](Executed("user") => ReferenceCaptured)
    /\ [][ReferenceCaptured => expected' = expected]_vars
    /\ [](VReturned
            => /\ vresponse.expected_result \in {None, Some(expected.rows)}
               /\ (vresponse.user_result = None /\ vresponse.columns # None)
                      => vresponse.columns = Some(expected.cols)
               /\ vresponse.user_result # None
                      => vresponse.success = IsCorrect(user, expected))

\* C34 witness: a postgres validation whose user query changed the tables
\* has returned the rows the reference query had returned before it.
C34_Witness ==
    /\ VReturned /\ backend = "postgres" /\ user_query = "mutate"
    /\ Executed("user")
    /\ expected.rows # << >>
    /\ vresponse.expected_result = Some(expected.rows)
    /\ vresponse.columns = Some(expected.cols)

\* The last statement sent to the database.
LastOp == IF log = << >> THEN "none" ELSE log[Len(log)].op

\* C35: when the user query raised a database error, the call still answers
\* with a validation result: success false, no user result, the reference
\* result and the reference's columns, an error text; and in the postgres
\* backend ROLLBACK was sent after the user query.
C35_UserErrorContained ==
    (VReturned /\ user_query = "error" /\ Executed("user"))
        => /\ vresponse.statusCode = 200
           /\ vresponse.success = FALSE
           /\ vresponse.user_result = None
           /\ vresponse.expected_result = Some(expected.rows)
           /\ vresponse.columns = Some(expected.cols)
           /\ vresponse.error # None
           /\ backend = "postgres" => LastOp = "ROLLBACK"

\* C36: a user result that has exactly the reference's rows and column
\* sequence is answered with success true, and the verdict of the comparison
\* is the same with the two results exchanged.
C36_ComparisonReflexiveSymmetric ==
    (VReturned /\ Compared)
        => /\ user = expected => vresponse.success = TRUE
           /\ IsCorrect(user, expected) = IsCorrect(expected, user)

----------------------------------------------------------------------------
(* Claims about python-judge, checked under SpecPy.                        *)

PyReturned == ppc = "returned"

\* C11: after lambda_handler of python-judge has returned, sys.stdout and
\* sys.stderr are bound to the original streams again.
C11_StreamsRestored ==
    PyReturned => (sys_stdout = "original" /\ sys_stderr = "original")

\* C12: once the alarm has fired the submitted code is no longer running.
C12_InterruptUnwinds ==
    alarm = "fired" => ppc # "exec"

\* C13: when the alarm fired while the submitted code was being evaluated,
\* the response is the timeout response: success false, 'Execution timed out'.
C13_TimeoutResponse ==
    (PyReturned /\ fired_at = "exec")
        => /\ py_response.success = FALSE
           /\ py_response.stderr = << TimedOutMsg >>

\* C14: the submitted code resolves no name outside the table of
\* create_restricted_globals (and test_input, when supplied).
C14_OnlyTheCapabilityTable ==
    ppc = "exec"
        => Reachable(restricted_globals)
              \subseteq (create_restricted_globals \cup {"test_input"})

\* C21: a submission that raised an exception it does not catch is answered
\* as a completed, unsuccessful run: success false, a non-zero exit code, the
\* captured stderr, and no engine-failure message.
C21_FailedRunReported ==
    (PyReturned /\ user_code = "raises" /\ fired_at = "none")
        => /\ py_response.success = FALSE
           /\ py_response.exitCode # 0
           /\ py_response.stderr = << UserErrorText >>
           /\ py_response.error = << >>

\* C22: when the alarm fired after the submitted code had written output, the
\* response carries the output that was in the buffer.
C22_BufferedOutputKept ==
    (PyReturned /\ fired_at # "none" /\ stdout_capture = ProgramOut)
        => py_response.stdout = ProgramOut

\* C38: the alarm of python-judge is set only once the input validation has
\* passed, and when lambda_handler returns the alarm that was set has been
\* cancelled or has expired: none is pending.
C38_NoAlarmLeft ==
    /\ alarm # "unarmed"
           => /\ user_code \notin {"blank", "toolarge"}
              /\ ppc \notin {"idle", "start", "validate"}
    /\ PyReturned
           => /\ ~Pending(alarm)
              /\ (user_code \notin {"blank", "toolarge"} /\ timeout_seconds # 0)
                     => alarm \in {"disarmed", "fired"}

\* C38 witness: an invocation with a negative timeout has returned; its alarm,
\* set for a time far away, was cancelled by the finally block.
C38_Witness ==
    /\ PyReturned /\ timeout_seconds < 0
    /\ user_code = "ok"
    /\ alarm = "disarmed"
    /\ py_response.statusCode = 200

----------------------------------------------------------------------------
(* Claims about the workspaces, checked under SpecWs.                      *)

\* C15: when an invocation has returned, its workspace directory is gone and
\* no file written by it or compiled from its source exists.
C15_WorkspaceDestroyed ==
    \A i \in Invocations :
        wpc[i] = "returned"
            => /\ WorkspaceOf(ws_program, i) \notin dirs
               /\ \A p \in Paths : fs[p] # i

\* C16: an invocation compiles only the source file it wrote itself and
\* executes only the artifact of its own compile step.
C16_InvocationsIsolated ==
    \A i \in Invocations :
        /\ compiled[i] \in {Absent, i}
        /\ executed[i] \in {Absent, i}

----------------------------------------------------------------------------
(* Claims about the limits, checked under SpecLim.                         *)

InRange(ceiling, lo, hi) == ceiling = << >> \/ (lo <= ceiling[1] /\ ceiling[1] <= hi)

\* C17: whatever the client supplies, the time ceilings handed to the compile
\* step, the run step and the alarm lie in 1..30 seconds and the memory
\* ceiling handed to the JVM lies in 1..512 MB.
C17_CeilingsClamped ==
    /\ InRange(compile_timeout, 1, 30)
    /\ InRange(run_timeout, 1, 30)
    /\ InRange(heap_mb, 1, 512)

\* C18: in java-judge and python-judge a request with code (not empty, not
\* over the length limit) whose time limit or memory limit is above the
\* ceiling is processed, with the limit replaced by the ceiling: 30 seconds,
\* 512 MB.
C18_OverLimitCapped ==
    (lim_program \in {"java-judge", "python-judge"} /\ lpc = "returned"
         /\ lim_code = "runnable")
        => /\ lim_outcome = "processed"
           /\ time_in > 30 => run_timeout = << 30 >>
           /\ (memory_in > 512 /\ lim_program = "java-judge") => heap_mb = << 512 >>

\* C18 witness: a java-judge request with both limits above the ceiling has
\* been processed with 30 seconds and 512 MB.
C18_Witness ==
    /\ lim_program = "java-judge" /\ lpc = "returned"
    /\ time_in > 30 /\ memory_in > 512
    /\ lim_outcome = "processed"
    /\ compile_timeout = << 30 >> /\ run_timeout = << 30 >> /\ heap_mb = << 512 >>

\* C28: a submission that is empty or too large is answered with a rejection
\* and nothing has been started for it: no compile step, no run step, no
\* alarm.
C28_RejectedBeforeWork ==
    (lpc = "returned" /\ lim_code \in {"blank", "toolarge"})
        => /\ lim_outcome \in {"no code", "too large"}
           /\ compile_timeout = << >>
           /\ run_timeout = << >>

\* C29: in an invocation that compiles and runs, the ceiling of the compile
\* step is strictly shorter than the ceiling of the run step.
C29_CompileShorterThanRun ==
    (lpc = "returned" /\ compile_timeout # << >> /\ run_timeout # << >>)
        => compile_timeout[1] < run_timeout[1]

----------------------------------------------------------------------------
(* Claims about the entry point of a Java submission, checked under Spec.  *)

\* The invocation has ended: with a response, or with an exception.
Ended == pc \in {"returned", "raised"}

EntrypointNotFound ==
    IF IsJavaJudge
      THEN response = JJMessage(400, NoMainClassMsg)
      ELSE response.stderr = NoClassMsg

\* C19: for a Java submission without a runnable entry point no compile and
\* no run process is ever started, and the invocation ends by returning the
\* entrypoint-not-found error.
C19_NoEntrypointShortCircuits ==
    (program \in {"java", "java-judge"} /\ code \in {"noentry", "nomain"})
        => /\ compiler = "none"
           /\ ~RunEntered
           /\ Ended => (Returned /\ EntrypointNotFound)

----------------------------------------------------------------------------
(* Claims about the output of a terminated run, checked under Spec.        *)

\* C23: when the run child was killed on its wall-clock ceiling and the
\* invocation has returned, the stdout text of the response is the text the
\* child had written to stdout, and the stderr text of the response is the
\* text it had written to stderr.
C23_PartialOutputReturned ==
    (Returned /\ child = "killed")
        => /\ ResponseStdout = child_out
           /\ child_err # EmptyText => response.stderr = child_err

----------------------------------------------------------------------------
(* Claims about retries, checked under Spec.                               *)

\* C33: within one invocation the compiler, the worker thread and the run
\* child are each started at most once: none of them is started after it
\* has been started before, whatever became of the first attempt.
C33_StartedAtMostOnce ==
    [][ /\ (compiler' = "running" /\ compiler # "running") => compiler = "none"
        /\ (thread' = "spawn" /\ thread # "spawn") => thread = "unstarted"
        /\ (child' = "running" /\ child # "running") => child = "none" ]_vars

\* C33 witness: an invocation has returned the failure of a compile step
\* that timed out, with the compiler killed and no run started.
C33_Witness ==
    /\ IsContainer /\ Returned /\ compile_result = "timeout"
    /\ compiler = "killed" /\ child = "none"
    /\ response.stderr = CompilationTimeoutMsg

----------------------------------------------------------------------------
(* Claims about the diagnostics of a failed compile step, checked under    *)
(* Spec.                                                                   *)

\* What the compiler wrote: its stdout text followed by its stderr text.
CombinedCompileOutput == << CompilerOut, CompilerErr >>

\* The diagnostics a caller reads from the response, as the sequence of the
\* texts they are made of: compile_output of java-judge, stderr of a
\* container.
CompileDiagnostics ==
    IF IsJavaJudge THEN response.compile_output ELSE << response.stderr >>

\* C30: when the compile step exited non-zero and the invocation has
\* returned, the response is unsuccessful and its diagnostics are the
\* compiler's stdout followed by its stderr, nothing added and nothing left
\* out.
C30_CompileOutputVerbatim ==
    (Returned /\ compile_result = "error")
        => /\ response.statusCode = 400
           /\ CompileDiagnostics = CombinedCompileOutput

----------------------------------------------------------------------------
(* Claims about the source preparation, checked under SpecPrep.            *)

\* A submission that defines its own complete runnable unit.
Complete(prog, text) ==
    CASE prog = "go" -> Contains(text, "package main") /\ Contains(text, "func main()")
      [] prog = "csharp" ->
           Contains(text, "static void Main") \/ Contains(text, "static async Task Main")
      [] OTHER ->
           Contains(text, "public class") /\ Contains(text, "public static void main")

NoWrapperText(text) == \A i \in DOMAIN text : text[i] \notin WrapperTokens

\* C20 as stated: the source file of a complete submission holds exactly the
\* submitted text, and none of the wrapper text.
C20_WrittenUnmodified ==
    (prep_pc = "written" /\ Complete(prep_program, submitted))
        => (prepared = submitted /\ NoWrapperText(prepared))

\* C20 amended: the source file of a complete submission holds the submitted
\* text, in java-judge without its leading and trailing white space, and
\* none of the wrapper text.
C20_WrittenUnwrapped ==
    (prep_pc = "written" /\ Complete(prep_program, submitted))
        => /\ prepared = IF prep_program = "java-judge"
                           THEN Strip(submitted) ELSE submitted
           /\ NoWrapperText(prepared)

\* C32: a Java handler that reports an entry point reports the class of the
\* first class declaration it recognises, in source order, and only for a
\* source that contains 'public static void main'; for a Java source without
\* that signature no entry point is reported and nothing is written.
C32_EntrypointNeedsMain ==
    (prep_program \in {"java", "java-judge"} /\ prep_pc \in {"written", "noentry"})
        => /\ prep_pc = "written"
                  => /\ Contains(submitted, "public static void main")
                     /\ main_class \in { FirstDeclared(submitted, PublicClassTokens),
                                          FirstDeclared(submitted, ClassTokens) }
                     /\ main_class # << >>
           /\ ~Contains(submitted, "public static void main")
                  => (prep_pc = "noentry" /\ main_class = << >>)

\* C37: the source a Go or C# handler has written is a fixed point of its
\* wrapping step, and the source a Go handler has written contains
\* 'package main' and 'func main()'.
C37_WrappingIdempotent ==
    (prep_program \in {"go", "csharp"} /\ prep_pc = "written")
        => /\ PreparedSource(prep_program, prepared) = prepared
           /\ prep_program = "go"
                  => /\ Contains(prepared, "package main")
                     /\ Contains(prepared, "func main()")

\* C37 witness: a Go submission without func main() has been wrapped, and
\* wrapping the result again leaves it as it is.
C37_Witness ==
    /\ prep_program = "go" /\ prep_pc = "written"
    /\ ~Contains(submitted, "func main()")
    /\ Head(prepared) = "wrapper head"
    /\ GoPrepare(prepared) = prepared

\* C20 witness: a Go submission with package main and func main() has been
\* written as submitted.
C20_Witness ==
    /\ prep_program = "go" /\ prep_pc = "written"
    /\ Contains(submitted, "package main") /\ Contains(submitted, "func main()")
    /\ prepared = submitted

====
